---- MODULE Spec2Model ----
(***************************************************************************)
(* shellrunner: run(command, shell, check, show_output, show_command).     *)
(*                                                                         *)
(* The model has two processes.  The child shell walks the assembled       *)
(* script (user commands interleaved with status-check invocations) and    *)
(* writes code points to the merged stdout/stderr pipe.  The caller        *)
(* (_run_commands) reads the pipe one code point at a time, splits it      *)
(* into visible output and status reports, and run() aggregates the last   *)
(* captured report into the result or an error.                            *)
(*                                                                         *)
(* Text is a sequence of code points; a code point is a one-element        *)
(* string, except the two markers, which are named by their code point.    *)
(***************************************************************************)
EXTENDS Integers, Sequences, FiniteSets, TLC

(***************************************************************************)
(* Bounds of the model.                                                    *)
(***************************************************************************)
MaxCmds == 2

(***************************************************************************)
(* Code points.                                                            *)
(***************************************************************************)
OPEN == "U+2F4C"
CLOSE == "U+2F8F"
DigitChars == <<"0", "1", "2", "3", "4", "5", "6", "7", "8", "9">>
Whitespace == {" ", "\n"}
Delimiter == <<" ", ":", " ">>

(***************************************************************************)
(* Python string helpers, computed as str does.                            *)
(***************************************************************************)
IsDigit(c) == \E i \in 1..10 : DigitChars[i] = c

DigitValue(c) == (CHOOSE i \in 1..10 : DigitChars[i] = c) - 1

RECURSIVE IntToStr(_)
IntToStr(n) ==
    IF n < 10 THEN <<DigitChars[n + 1]>>
    ELSE IntToStr(n \div 10) \o <<DigitChars[(n % 10) + 1]>>

RECURSIVE StrToIntAcc(_, _)
StrToIntAcc(tok, acc) ==
    IF tok = <<>> THEN acc
    ELSE StrToIntAcc(Tail(tok), acc * 10 + DigitValue(Head(tok)))

\* int(x) succeeds on a non-empty run of decimal digits (no sign occurs in
\* the alphabet of the model); anything else raises ValueError.
IsInt(tok) == tok # <<>> /\ \A i \in 1..Len(tok) : IsDigit(tok[i])

ParseInt(tok) == StrToIntAcc(tok, 0)

\* str.split(sep): the pieces between the leftmost non-overlapping
\* occurrences of sep.
RECURSIVE SplitAcc(_, _, _, _)
SplitAcc(s, sep, cur, acc) ==
    IF Len(s) < Len(sep) THEN Append(acc, cur \o s)
    ELSE IF SubSeq(s, 1, Len(sep)) = sep
         THEN SplitAcc(SubSeq(s, Len(sep) + 1, Len(s)), sep, <<>>, Append(acc, cur))
         ELSE SplitAcc(Tail(s), sep, Append(cur, Head(s)), acc)

Split(s, sep) == SplitAcc(s, sep, <<>>, <<>>)

\* str.split(): the maximal runs of non-whitespace.
RECURSIVE SplitWhitespaceAcc(_, _, _)
SplitWhitespaceAcc(s, cur, acc) ==
    IF s = <<>> THEN (IF cur = <<>> THEN acc ELSE Append(acc, cur))
    ELSE IF Head(s) \in Whitespace
         THEN SplitWhitespaceAcc(Tail(s), <<>>, IF cur = <<>> THEN acc ELSE Append(acc, cur))
         ELSE SplitWhitespaceAcc(Tail(s), Append(cur, Head(s)), acc)

SplitWhitespace(s) == SplitWhitespaceAcc(s, <<>>, <<>>)

\* sep.join(parts)
RECURSIVE Join(_, _)
Join(parts, sep) ==
    IF parts = <<>> THEN <<>>
    ELSE IF Len(parts) = 1 THEN parts[1]
    ELSE parts[1] \o sep \o Join(Tail(parts), sep)

\* Variant: str.strip(), which removes the leading whitespace as well.
Strip(s) ==
    LET keep == {k \in 1..Len(s) : s[k] \notin Whitespace}
    IN  IF keep = {} THEN <<>>
        ELSE SubSeq(s, CHOOSE k \in keep : \A j \in keep : k <= j,
                       CHOOSE k \in keep : \A j \in keep : k >= j)

\* str.rstrip(): trailing whitespace removed.
RECURSIVE RStrip(_)
RStrip(s) ==
    IF s = <<>> THEN <<>>
    ELSE IF s[Len(s)] \in Whitespace THEN RStrip(SubSeq(s, 1, Len(s) - 1))
    ELSE s

(***************************************************************************)
(* The inputs of run.                                                      *)
(***************************************************************************)
\* An optional value: None, or one value.
None == <<>>
Some(v) == <<v>>

\* The working directory run is called in.
CallerCwd == "/home"

Shells == {"bash", "zsh", "fish", "sh"}

\* The base names a call may resolve its shell to: any executable will do.
ShellNames == Shells \cup {"dash"}

\* The commands the calls are made with, and what each does when a shell
\* runs it: the text it writes and the exit status of each of its stages.
Commands ==
    { "echo a", "true", "false", "foo", "bash -c 'exit 2'", "true | false", "true | foo",
      "false | echo b", "bash -c 'exit 1' | bash -c 'exit 2' | echo b" }

\* The lines of a script, and the line a statement of it starts on: the
\* first line for the first statement, and one line more for every newline
\* in the statements before it (the source of the status check has some).
ScriptLines(script) == Split(script, <<"\n">>)

Newlines(words) == Cardinality({i \in 1..Len(words) : words[i] = "\n"})

RECURSIVE LineOf(_, _)
LineOf(statements, k) ==
    IF k <= 1 THEN 1 ELSE LineOf(statements, k - 1) + Newlines(statements[k - 1])

\* foo is a command no shell finds.  The shell that looks for it writes a
\* message to its stderr, which is the pipe (stderr=subprocess.STDOUT).
\* The wording is the shell's own.  The shell names itself in it by the path
\* it was started with, which stands here as its name; bash, zsh, sh and
\* dash give the line of the script the command stands on; fish prints that
\* line of the script again and a line that points at the command.  The
\* fixed parts of the wording stand in the stream as one element each, none
\* of their code points being a marker.
UnknownCommandMessage(name, script, line) ==
    CASE name = "bash" ->
           <<name, ": line ">> \o IntToStr(line) \o <<": foo: command not found", "\n">>
      [] name = "zsh" ->
           <<name, ":">> \o IntToStr(line) \o <<": command not found: foo", "\n">>
      [] name = "fish" ->
           <<name, ": Unknown command: foo", "\n", name, ": ", "\n">>
               \o ScriptLines(script)[line] \o <<"\n", "^", "\n">>
      [] OTHER ->
           <<name, ": ">> \o IntToStr(line) \o <<": foo: not found", "\n">>

\* The pipelines with a stage that is an unknown command.
UnknownInPipeline == {"true | foo"}

\* Commands whose own output holds a marker; U+2F4C and U+2F8F stand in the
\* names for the code points themselves.
StrayCommands ==
    { "printf 'U+2F4Cc\\n'", "printf 'U+2F8Fc\\n'", "printf 'U+2F4CU+2F8F'",
      "printf 'U+2F4C : x : U+2F8F'" }

\* What the command c writes when the shell name runs it as the statement
\* that starts on the given line of the script.
CommandOutput(name, c, script, line) ==
    CASE c = "echo a" -> <<"a", "\n">>
      [] c = "foo" -> UnknownCommandMessage(name, script, line)
      [] c = "true | foo" -> UnknownCommandMessage(name, script, line)
      [] c = "printf 'U+2F4Cc\\n'" -> <<OPEN, "c", "\n">>
      [] c = "printf 'U+2F8Fc\\n'" -> <<CLOSE, "c", "\n">>
      [] c = "printf 'U+2F4CU+2F8F'" -> <<OPEN, CLOSE>>
      [] c = "printf 'U+2F4C : x : U+2F8F'" -> <<OPEN, " ", ":", " ", "x", " ", ":", " ", CLOSE>>
      [] c = "false | echo b" -> <<"b", "\n">>
      [] c = "bash -c 'exit 1' | bash -c 'exit 2' | echo b" -> <<"b", "\n">>
      [] OTHER -> <<>>

\* Variant: every command starts in the directory of the caller, as it
\* would with one shell per command.
CwdAfterFresh(c, cwd) == CallerCwd

\* What a command makes of the working directory of the shell that runs it.
CwdAfter(c, cwd) == IF c = "cd /" THEN "/" ELSE cwd

PathChars(path) ==
    CASE path = "/" -> <<"/">>
      [] path = "/home" -> <<"/", "h", "o", "m", "e">>

\* What a command writes when run in the directory cwd.
CommandWrites(name, c, cwd, script, line) ==
    IF c = "pwd" THEN PathChars(cwd) \o <<"\n">> ELSE CommandOutput(name, c, script, line)

\* The exit statuses of the stages of a command, in stage order, each
\* stage being run.
CommandStages(c) ==
    CASE c = "echo a" -> <<0>>
      [] c = "foo" -> <<127>>
      [] c = "true | foo" -> <<0, 127>>
      [] c = "cd /" -> <<0>>
      [] c = "pwd" -> <<0>>
      [] c = "true" -> <<0>>
      [] c = "false" -> <<1>>
      [] c = "bash -c 'exit 2'" -> <<2>>
      [] c = "true | false" -> <<0, 1>>
      [] c = "false | echo b" -> <<1, 0>>
      [] c = "bash -c 'exit 1' | bash -c 'exit 2' | echo b" -> <<1, 2, 0>>
      [] c \in StrayCommands -> <<0>>

\* The statuses the shell holds once it is done with a command.  fish does
\* not run a pipeline at all when one of its commands is unknown: it is
\* left with the one status 127.  Every other shell runs every stage.
PipelineStatus(name, c) ==
    IF name = "fish" /\ c \in UnknownInPipeline THEN <<127>> ELSE CommandStages(c)

\* The commands that hold an unknown command: the shells differ on them.
UnknownCommands == {"foo"} \cup UnknownInPipeline

\* The calls followed in general are made with the commands every shell
\* runs alike; the calls with an unknown command are those of DialectLists.
CommandLists == UNION {[1..n -> Commands \ UnknownCommands] : n \in 1..MaxCmds}

\* The calls the shells are compared on: an output, the unknown command,
\* and every pipeline, the one with the unknown command among them.
DialectCommands ==
    { "echo a", "foo", "true | false", "true | foo", "false | echo b",
      "bash -c 'exit 1' | bash -c 'exit 2' | echo b" }
DialectLists == UNION {[1..n -> DialectCommands] : n \in 1..MaxCmds}

\* The lists the calls followed from their entry are made with, the empty
\* list among them: what is assembled and printed depends on the text of
\* the commands only, so three of them stand for all.
CallCommands == {"echo a", "false", "false | echo b"}
CallCommandLists == UNION {[1..n -> CallCommands] : n \in 0..MaxCmds}

\* A pipeline in general: what it writes and the statuses of its stages.
MaxStages == 3
StatusValues == {0, 2, 10, 127}
StatusSeqs == UNION {[1..n -> StatusValues] : n \in 1..MaxStages}
PipelineOutputs ==
    {<<>>, <<"a", "\n">>, <<" ", "a", " ", "b", "\n", " ">>, <<"\n", " ">>}

(***************************************************************************)
(* _build_commands                                                         *)
(***************************************************************************)
sys_executable == "sys.executable"

\* Variant: the last-status expression of the POSIX shells for every shell.
status_var_posix(name) == "$?"

status_var(name) == IF name \in {"zsh", "fish"} THEN "$status" ELSE "$?"

\* Variant: every shell is treated as a POSIX shell without PIPESTATUS.
pipestatus_var_posix(name) == "$?"

pipestatus_var(name) ==
    IF name \in {"zsh", "fish"} THEN "$pipestatus"
    ELSE IF name = "bash" THEN "${PIPESTATUS[*]}"
    ELSE "$?"

\* Variant: the exit clause is appended whatever check says.
exit_command_always(name, chk) == <<"||", "exit", status_var(name)>>

\* Variant: the exit clause is never appended.
exit_command_absent(name, chk) == <<>>

exit_command(name, chk) == IF chk THEN <<"||", "exit", status_var(name)>> ELSE <<>>

\* The source of the status reporter after cleandoc, cut into fragments.  The
\* markers appear in it only as the escapes \u2f4c and \u2f8f of a Python
\* string literal: the raw string keeps the backslashes.
OpenEscape == "\\u2f4c"
CloseEscape == "\\u2f8f"

\* Variant: the source carries the two markers themselves.
status_check_literal ==
    <<"import sys", "\n", "pipestatus = sys.argv[1]", "\n",
      "print(", "'", OPEN, "'", " + f' : {pipestatus} : ' + ", "'", CLOSE, "'", ", end='')", "\n",
      "for status in [int(x) for x in pipestatus.split()]:", "\n",
      "    if status != 0: sys.exit(status)">>

status_check ==
    <<"import sys", "\n", "pipestatus = sys.argv[1]", "\n",
      "print(", "'", OpenEscape, "'", " + f' : {pipestatus} : ' + ", "'", CloseEscape, "'", ", end='')", "\n",
      "for status in [int(x) for x in pipestatus.split()]:", "\n",
      "    if status != 0: sys.exit(status)">>

\* f'{sys.executable} -c "{status_check}" "{pipestatus_var}"{exit_command}'
status_command(name, chk) ==
    <<sys_executable, "-c">> \o status_check \o <<pipestatus_var(name)>> \o exit_command(name, chk)

\* Variant: list.append(x), whatever the index.
InsertAtEnd(list, i, x) == list \o <<x>>

\* list.insert(i, x), i counted from 0 and clamped to the length.
Insert(list, i, x) ==
    LET k == IF i > Len(list) THEN Len(list) ELSE i
    IN  SubSeq(list, 1, k) \o <<x>> \o SubSeq(list, k + 1, Len(list))

\* for i in range(1, len(command_list) * 2, 2): commands.insert(i, status_command)
RECURSIVE InsertStatusCommands(_, _, _, _)
InsertStatusCommands(list, i, stop, x) ==
    IF i >= stop THEN list
    ELSE InsertStatusCommands(Insert(list, i, x), i + 2, stop, x)

\* The list objects _build_commands works with.  A Python name holds a
\* reference to a list object and insert changes the object in place:
\* objects[r] is the content of the object with the reference r, its items
\* being texts (sequences of words).  The list of the caller is the first
\* object.
CallerList == 1

\* A command of the caller as an item of a list object, and back.
ItemOf(c) == <<c>>
CommandOf(item) == IF Len(item) = 1 THEN item[1] ELSE item

\* Variant: commands = command_list, a second name for the object of the
\* caller.
ListAlias(objects, r) == [objects |-> objects, ref |-> r]

\* command_list.copy(): a new object with the items of the object r.
ListCopy(objects, r) ==
    [objects |-> Append(objects, objects[r]), ref |-> Len(objects) + 1]

\* The insert loop, on the object r: commands.insert(i, status_command)
\* changes that object and no other.
ListInsertStatusCommands(objects, r, stop, x) ==
    [objects EXCEPT ![r] = InsertStatusCommands(@, 1, stop, x)]

\* _build_commands called with the list cl, up to the join: the objects
\* it leaves and the reference its name commands holds.
BuildObjects(cl, name, chk) ==
    LET passed == <<[i \in 1..Len(cl) |-> ItemOf(cl[i])]>>
        copied == ListCopy(passed, CallerList)
    IN  [objects |-> ListInsertStatusCommands(copied.objects, copied.ref, Len(cl) * 2,
                                              status_command(name, chk)),
         commands |-> copied.ref]

\* The list of the caller once _build_commands has returned.
ListAfterBuild(cl, name, chk) ==
    LET list == BuildObjects(cl, name, chk).objects[CallerList]
    IN  [i \in 1..Len(list) |-> CommandOf(list[i])]

\* The script: "; ".join(commands), the statements (each a sequence of
\* words) joined by "; ".
BuildCommands(cl, name, chk) ==
    LET built == BuildObjects(cl, name, chk)
    IN  Join(built.objects[built.commands], <<"; ">>)

(***************************************************************************)
(* The status reporter (status_check), run by the shell after a command.   *)
(***************************************************************************)
\* Python reads the escape \uXXXX in a string literal as the code point
\* U+XXXX; every other fragment of a literal stands for itself.
Unescape(literal) ==
    IF literal = "\\u2f4c" THEN OPEN
    ELSE IF literal = "\\u2f8f" THEN CLOSE
    ELSE literal

\* The two string literals of the print statement of status_check.
OpenLiteral == status_check[7]
CloseLiteral == status_check[11]

\* Variant: the loop that exits comes before the print, so that a text
\* naming a non-zero status is never reported.
StatusCheckPrintIfZero(text) ==
    IF \E i \in 1..Len(text) : text[i] \notin {"0", " "} THEN <<>>
    ELSE <<Unescape(OpenLiteral)>> \o Delimiter \o text \o Delimiter \o <<Unescape(CloseLiteral)>>

\* Variant: print without end='', which ends the report with a newline.
StatusCheckPrintLine(text) ==
    <<Unescape(OpenLiteral)>> \o Delimiter \o text \o Delimiter \o <<Unescape(CloseLiteral)>> \o <<"\n">>

\* print('\u2f4c' + f' : {pipestatus} : ' + '\u2f8f', end='')
StatusCheckPrint(text) ==
    <<Unescape(OpenLiteral)>> \o Delimiter \o text \o Delimiter \o <<Unescape(CloseLiteral)>>

\* for status in [int(x) for x in pipestatus.split()]: if status != 0: sys.exit(status)
RECURSIVE FirstNonZero(_)
FirstNonZero(toks) ==
    IF toks = <<>> THEN 0
    ELSE IF ~IsInt(Head(toks)) THEN 1
    ELSE IF ParseInt(Head(toks)) # 0 THEN ParseInt(Head(toks))
    ELSE FirstNonZero(Tail(toks))

StatusCheckExit(text) ==
    LET toks == SplitWhitespace(text)
    IN  IF \E i \in 1..Len(toks) : ~IsInt(toks[i]) THEN 1 ELSE FirstNonZero(toks)

(***************************************************************************)
(* The shell: how it splits the script and expands the status variables.   *)
(***************************************************************************)
\* An empty script has no statement to run.
ShellStatements(script) == IF script = <<>> THEN <<>> ELSE Split(script, <<"; ">>)

IsStatusCommand(st) == st[1] = sys_executable

\* The words of a status command: the interpreter, -c, the source, the
\* argument, and then the exit clause if there is one.
ArgumentAt == Len(status_check) + 3

HasExitClause(st) == Len(st) > ArgumentAt

\* "${PIPESTATUS[*]}" and "$pipestatus" expand to the statuses of all stages
\* of the last pipeline, "$?" and "$status" to that of its last stage.
Expand(var, stages) ==
    IF var \in {"${PIPESTATUS[*]}", "$pipestatus"}
    THEN Join([i \in 1..Len(stages) |-> IntToStr(stages[i])], <<" ">>)
    ELSE IntToStr(stages[Len(stages)])

(***************************************************************************)
(* run: the aggregation after _run_commands has returned.                  *)
(***************************************************************************)
\* Variant: the scan runs from the front and stops at the first failure.
ScanForward(pl, i, status) ==
    IF \E j \in 1..Len(pl) : pl[j] # 0
    THEN pl[CHOOSE j \in 1..Len(pl) : pl[j] # 0 /\ \A k \in 1..(j - 1) : pl[k] = 0]
    ELSE status

\* status = pipestatus_list[-1]
\* for s in reversed(pipestatus_list): if s != 0: status = s; break
RECURSIVE ScanReversed(_, _, _)
ScanReversed(pl, i, status) ==
    IF i = 0 THEN status
    ELSE IF pl[i] # 0 THEN pl[i]
    ELSE ScanReversed(pl, i - 1, status)

\* Variant: status = pipestatus_list[-1], without the loop after it.
StatusOfLastStage(pl) == pl[Len(pl)]

Status(pl) == ScanReversed(pl, Len(pl), pl[Len(pl)])

\* Variant: only the status of the last stage is looked at.
LastStageFailed(pl) == pl # <<>> /\ pl[Len(pl)] # 0

\* for status in pipestatus_list: if status != 0: raise ShellCommandError
RECURSIVE ScanForFailure(_)
ScanForFailure(pl) ==
    IF pl = <<>> THEN FALSE
    ELSE IF Head(pl) # 0 THEN TRUE
    ELSE ScanForFailure(Tail(pl))

\* Variant: the check option is ignored.
CheckFailsAlways(chk, pl) == ScanForFailure(pl)

CheckFails(chk, pl) == chk /\ ScanForFailure(pl)

\* ShellCommandResult(output.rstrip(), status, pipestatus_list)
ShellCommandResult(out, pl) ==
    [kind |-> "ShellCommandResult", out |-> RStrip(out), status |-> Status(pl), pipestatus |-> pl]

\* Variant: the error reports a fixed failure status instead of the result's.
ShellCommandErrorStatusOne(res) ==
    [kind |-> "ShellCommandError", out |-> res.out, status |-> 1, pipestatus |-> res.pipestatus]

\* ShellCommandError(message, result): the fields of result are copied.
ShellCommandError(res) ==
    [kind |-> "ShellCommandError", out |-> res.out, status |-> res.status,
     pipestatus |-> res.pipestatus]

\* Any other exception carries no result.
Raise(exception) == [kind |-> exception, out |-> <<>>, status |-> 0, pipestatus |-> <<>>]

NoResult == Raise("none")

\* Variant: a missing exit status is an error only when check is enabled.
RunUncheckedEmpty(out, pl, chk) ==
    IF pl = <<>>
    THEN IF chk THEN Raise("ShellRunnerError")
         ELSE [kind |-> "ShellCommandResult", out |-> RStrip(out), status |-> 0,
               pipestatus |-> <<>>]
    ELSE IF CheckFails(chk, pl) THEN ShellCommandError(ShellCommandResult(out, pl))
    ELSE ShellCommandResult(out, pl)

Run(out, pl, chk) ==
    IF pl = <<>> THEN Raise("ShellRunnerError")
    ELSE IF CheckFails(chk, pl) THEN ShellCommandError(ShellCommandResult(out, pl))
    ELSE ShellCommandResult(out, pl)

(***************************************************************************)
(* _run_commands: the body of the read loop, for one value of out (one     *)
(* code point, or the empty string at end of file).                        *)
(***************************************************************************)
\* Variant: OPEN does not switch the loop to capturing the status.
CaptureUnchanged(capture, out) == capture

\* if out.startswith("⽌"): capture_output = False
CaptureAfterOpen(capture, out) == IF out = <<OPEN>> THEN FALSE ELSE capture

\* pipestatus.split(" : ")[1]; IndexError when there is no delimiter.
HasPayload(buffer) == Len(Split(buffer, Delimiter)) >= 2

\* Variant: the statuses left in the buffer by the previous report are kept
\* in front of the new ones.
PayloadMerged(buffer) ==
    SelectSeq(Split(buffer, Delimiter)[1], LAMBDA c : IsDigit(c) \/ c = " ")
        \o <<" ">> \o Split(buffer, Delimiter)[2]

Payload(buffer) == Split(buffer, Delimiter)[2]

\* Variant: the payload is parsed and the buffer is left as it is.
BufferKept(buffer) == buffer

\* pipestatus = pipestatus.split(" : ")[1]: what the buffer holds after CLOSE.
BufferAfterClose(buffer) == Payload(buffer)

\* Variant: one integer per digit, [int(x) for x in pipestatus if x.isdigit()].
ParsePipestatusDigits(text) ==
    LET digits == SelectSeq(text, IsDigit)
    IN  [i \in 1..Len(digits) |-> DigitValue(digits[i])]

\* [int(x) for x in pipestatus.split()]; ValueError on a non-integer.
AllInts(text) == \A i \in 1..Len(SplitWhitespace(text)) : IsInt(SplitWhitespace(text)[i])

ParsePipestatus(text) ==
    [i \in 1..Len(SplitWhitespace(text)) |-> ParseInt(SplitWhitespace(text)[i])]

VARIABLES
    shell,            \* options.shell.name
    check,            \* options.check
    show_output,      \* options.show_output
    show_command,     \* options.show_command
    command_list,     \* the caller's list of commands
    commands,         \* the assembled script
    sh_statements,    \* the child: the statements it parsed the script into
    sh_state,         \* the child: "unspawned", "running", "closed" (pipe closed), "terminated"
    sh_pc,            \* the child: index of the next statement of the script
    sh_pipestatus,    \* the child: statuses of the stages of the last command
    sh_exit,          \* the child: a status check failed and its exit clause is due
    stream,           \* code points written to the pipe and not yet read
    capture_output,   \* reader: True while reading visible output
    output,           \* reader: visible output so far
    pipestatus,       \* reader: the pending status buffer
    pipestatus_list,  \* reader: the last parsed status report
    printed,          \* what run has printed to the caller's stdout
    run_pc,           \* caller: "entry", "call", "built", "spawn", "read", "poll", "unwind", "wait",
                      \* "returned", "done"
    result,           \* what run returned or raised
    written,          \* history: every code point the child wrote, in order
    executed,         \* history: the commands the child ran, in order
    reports,          \* history: the texts the status checks were given
    killed,           \* history: the child was killed from outside
    args,             \* the arguments run was called with, each None or a value
    env,              \* the SHELLRUNNER_* environment variables, each unset or a value
    parent_exe,       \* the executable of the parent process, None when it cannot be had
    sh_cwd,           \* the child: its working directory
    stdout_open       \* the caller holds the open pipe of the child (process.stdout)

vars ==
    <<shell, check, show_output, show_command, command_list, commands, sh_statements, sh_state, sh_pc,
      sh_pipestatus, sh_exit, stream, capture_output, output, pipestatus, pipestatus_list, printed,
      run_pc, result, written, executed, reports, killed, args, env, parent_exe, sh_cwd,
      stdout_open>>

options == <<shell, check, show_output, show_command, command_list, commands, sh_statements>>
child == <<sh_state, sh_pc, sh_pipestatus, sh_exit>>
reader == <<capture_output, output, pipestatus, pipestatus_list, printed>>
history == <<written, executed, reports>>
call == <<args, env, parent_exe>>

\* A call at the moment the shell has been spawned.  show_command is read
\* once, before the spawn: these calls are the ones made with it disabled.
Init ==
    /\ shell \in Shells
    /\ check \in BOOLEAN
    /\ show_output \in BOOLEAN
    /\ show_command = FALSE
    /\ command_list \in CommandLists
    /\ commands = BuildCommands(command_list, shell, check)
    /\ sh_statements = ShellStatements(commands)
    /\ sh_state = "running"
    /\ sh_pc = 1
    /\ sh_pipestatus = <<0>>
    /\ sh_exit = FALSE
    /\ stream = <<>>
    /\ capture_output = TRUE
    /\ output = <<>>
    /\ pipestatus = <<>>
    /\ pipestatus_list = <<>>
    /\ printed = <<>>
    /\ run_pc = "read"
    /\ result = NoResult
    /\ written = <<>>
    /\ executed = <<>>
    /\ reports = <<>>
    /\ killed = FALSE
    /\ args = [shell |-> Some(shell), check |-> Some(check), show_output |-> Some(show_output),
               show_command |-> Some(show_command)]
    /\ env = [SHELLRUNNER_SHELL |-> None, SHELLRUNNER_CHECK |-> None,
              SHELLRUNNER_SHOW_OUTPUT |-> None, SHELLRUNNER_SHOW_COMMAND |-> None]
    /\ parent_exe = None
    /\ sh_cwd = CallerCwd
    /\ stdout_open = TRUE

\* A call of run with one pipeline, under bash, at the moment the shell has
\* run the script to its end: the pipeline has written its output, the
\* reporter has written the statuses of its stages and exited.
InitPipeline ==
    /\ shell = "bash"
    /\ check \in BOOLEAN
    /\ show_output \in BOOLEAN
    /\ show_command = FALSE
    /\ command_list = <<"pipeline">>
    /\ commands = BuildCommands(command_list, shell, check)
    /\ sh_statements = ShellStatements(commands)
    /\ sh_state = "running"
    /\ sh_pc = 3
    /\ \E out \in PipelineOutputs, stages \in StatusSeqs :
          LET text == Expand(pipestatus_var(shell), stages)
          IN  /\ stream = out \o StatusCheckPrint(text)
              /\ written = out \o StatusCheckPrint(text)
              /\ reports = <<text>>
              /\ sh_pipestatus = <<StatusCheckExit(text)>>
              /\ sh_exit = (check /\ StatusCheckExit(text) # 0)
    /\ capture_output = TRUE
    /\ output = <<>>
    /\ pipestatus = <<>>
    /\ pipestatus_list = <<>>
    /\ printed = <<>>
    /\ run_pc = "read"
    /\ result = NoResult
    /\ executed = command_list
    /\ killed = FALSE
    /\ args = [shell |-> Some(shell), check |-> Some(check), show_output |-> Some(show_output),
               show_command |-> Some(show_command)]
    /\ env = [SHELLRUNNER_SHELL |-> None, SHELLRUNNER_CHECK |-> None,
              SHELLRUNNER_SHOW_OUTPUT |-> None, SHELLRUNNER_SHOW_COMMAND |-> None]
    /\ parent_exe = None
    /\ sh_cwd = CallerCwd
    /\ stdout_open = TRUE

(***************************************************************************)
(* _resolve_options and its helpers in _utils.                             *)
(***************************************************************************)
\* str.lower() and str.upper() of one code point.
LowerOf(c) ==
    CASE c = "T" -> "t" [] c = "R" -> "r" [] c = "U" -> "u" [] c = "E" -> "e"
      [] c = "F" -> "f" [] c = "A" -> "a" [] c = "L" -> "l" [] c = "S" -> "s"
      [] OTHER -> c

UpperOf(c) ==
    CASE c = "t" -> "T" [] c = "r" -> "R" [] c = "u" -> "U" [] c = "e" -> "E"
      [] c = "f" -> "F" [] c = "a" -> "A" [] c = "l" -> "L" [] c = "s" -> "S"
      [] c = "m" -> "M" [] c = "y" -> "Y" [] c = "b" -> "B"
      [] OTHER -> c

IsCased(c) == LowerOf(c) # c \/ UpperOf(c) # c

\* str.title(): a letter is upper case after a code point that is no letter
\* and at the start, lower case after a letter.
Title(value) ==
    [i \in 1..Len(value) |->
        IF i = 1 \/ ~IsCased(value[i - 1]) THEN UpperOf(value[i]) ELSE LowerOf(value[i])]

\* Variant: the value is compared as it stands, without title().
EnvGetBoolExact(value) ==
    IF value = None THEN [error |-> FALSE, value |-> None]
    ELSE IF value[1] = <<"T", "r", "u", "e">> THEN [error |-> FALSE, value |-> Some(TRUE)]
    ELSE IF value[1] = <<"F", "a", "l", "s", "e">> THEN [error |-> FALSE, value |-> Some(FALSE)]
    ELSE [error |-> TRUE, value |-> None]

\* Env.get_bool on the value of os.getenv: None, a boolean, or the error.
EnvGetBool(value) ==
    IF value = None THEN [error |-> FALSE, value |-> None]
    ELSE IF Title(value[1]) = <<"T", "r", "u", "e">> THEN [error |-> FALSE, value |-> Some(TRUE)]
    ELSE IF Title(value[1]) = <<"F", "a", "l", "s", "e">>
    THEN [error |-> FALSE, value |-> Some(FALSE)]
    ELSE [error |-> TRUE, value |-> None]

\* resolve_option(option_arg, env_var_value, default=...)
ResolveOption(option_arg, env_var_value, default) ==
    IF option_arg # None THEN option_arg[1]
    ELSE IF env_var_value # None THEN env_var_value[1]
    ELSE default

\* The files of the machine: what shutil.which finds for a name or path,
\* whether os.access grants X_OK, where Path.resolve ends, and Path.name.
Which(name) ==
    CASE name \in {"bash", "/usr/bin/bash"} -> Some("/usr/bin/bash")
      [] name \in {"sh", "/usr/bin/sh"} -> Some("/usr/bin/sh")
      [] name = "python3" -> Some("/usr/local/bin/python3")
      [] name = "/tmp/non_executable" -> Some("/tmp/non_executable")
      [] OTHER -> None

Executable(path) == path # "/tmp/non_executable"

RealPath(path) ==
    CASE path = "/usr/bin/sh" -> "/usr/bin/dash"
      [] path = "/usr/local/bin/python3" -> "/usr/local/bin/python3.11"
      [] OTHER -> path

BaseName(path) ==
    CASE path = "/usr/bin/bash" -> "bash"
      [] path = "/usr/bin/dash" -> "dash"
      [] path = "/usr/local/bin/python3.11" -> "python3.11"
      [] path = "/tmp/non_executable" -> "non_executable"

\* Variant: no name is taken for that of a Python interpreter.
StartsWithPythonNever(name) == FALSE

\* shell.name.startswith("python")
StartsWithPython(name) == name \in {"python", "python3", "python3.11"}

\* resolve_shell_path: the resolved path, or None for ShellResolutionError.
ResolveShellPath(name) ==
    IF Which(name) = None THEN None
    ELSE IF ~Executable(Which(name)[1]) THEN None
    ELSE Some(RealPath(Which(name)[1]))

\* get_parent_shell_path: any failure becomes ShellResolutionError.
GetParentShellPath(exe) == IF exe = None THEN None ELSE Some(RealPath(exe[1]))

\* _resolve_options: the shell first, then the three flags in their order;
\* each Env.get_bool is evaluated before resolve_option is called with it.
ResolveOptions(a, ev, exe) ==
    LET name == ResolveOption(a.shell, ev.SHELLRUNNER_SHELL, "")
        path == IF name # "" THEN ResolveShellPath(name) ELSE GetParentShellPath(exe)
        chk == EnvGetBool(ev.SHELLRUNNER_CHECK)
        out == EnvGetBool(ev.SHELLRUNNER_SHOW_OUTPUT)
        cmd == EnvGetBool(ev.SHELLRUNNER_SHOW_COMMAND)
        failure(kind) == [kind |-> kind, shell |-> "", check |-> TRUE, show_output |-> TRUE,
                          show_command |-> TRUE]
    IN  IF path = None THEN failure("ShellResolutionError")
        ELSE IF StartsWithPython(BaseName(path[1])) THEN failure("ShellResolutionError")
        ELSE IF chk.error \/ out.error \/ cmd.error THEN failure("EnvironmentVariableError")
        ELSE [kind |-> "Options",
              shell |-> BaseName(path[1]),
              check |-> ResolveOption(a.check, chk.value, TRUE),
              show_output |-> ResolveOption(a.show_output, out.value, TRUE),
              show_command |-> ResolveOption(a.show_command, cmd.value, TRUE)]

\* The values the tests give the flags and their environment variables.
BoolArgs == {None, Some(TRUE), Some(FALSE)}
BoolEnvValues ==
    {None, Some(<<"t", "R", "U", "E">>), Some(<<"f", "A", "l", "S", "e">>),
     Some(<<"m", "a", "y", "b", "e">>)}
ShellArgs ==
    {None, Some(""), Some("bash"), Some("/usr/bin/sh"), Some("invalidshell"),
     Some("python3"), Some("/tmp/non_executable")}
ShellEnvValues == {None, Some("sh"), Some("invalidshell")}
ParentExes == {None, Some("/usr/bin/bash"), Some("/usr/local/bin/python3.11")}

\* A call at its very entry, nothing resolved: either the shell is bash and
\* the flags and their variables take every value, or the flags are left to
\* their defaults and the shell is given in every way, SHELLRUNNER_CHECK
\* being valid or not.  The options hold their defaults until resolved.
InitOptions ==
    /\ \/ /\ args \in [shell : {Some("bash")}, check : BoolArgs, show_output : BoolArgs,
                       show_command : BoolArgs]
          /\ env \in [SHELLRUNNER_SHELL : {None}, SHELLRUNNER_CHECK : BoolEnvValues,
                      SHELLRUNNER_SHOW_OUTPUT : BoolEnvValues,
                      SHELLRUNNER_SHOW_COMMAND : BoolEnvValues]
          /\ parent_exe = Some("/usr/bin/bash")
       \/ /\ args \in [shell : ShellArgs, check : {None}, show_output : {None},
                       show_command : {None}]
          /\ env \in [SHELLRUNNER_SHELL : ShellEnvValues,
                      SHELLRUNNER_CHECK : {None, Some(<<"m", "a", "y", "b", "e">>)},
                      SHELLRUNNER_SHOW_OUTPUT : {None}, SHELLRUNNER_SHOW_COMMAND : {None}]
          /\ parent_exe \in ParentExes
    /\ shell = ""
    /\ check = TRUE
    /\ show_output = TRUE
    /\ show_command = TRUE
    /\ command_list = <<"false | echo b">>
    /\ commands = <<>>
    /\ sh_statements = <<>>
    /\ sh_state = "unspawned"
    /\ sh_pc = 1
    /\ sh_pipestatus = <<0>>
    /\ sh_exit = FALSE
    /\ stream = <<>>
    /\ capture_output = TRUE
    /\ output = <<>>
    /\ pipestatus = <<>>
    /\ pipestatus_list = <<>>
    /\ printed = <<>>
    /\ run_pc = "entry"
    /\ result = NoResult
    /\ written = <<>>
    /\ executed = <<>>
    /\ reports = <<>>
    /\ killed = FALSE
    /\ sh_cwd = CallerCwd
    /\ stdout_open = FALSE

\* options = _resolve_options(shell, check, show_output, show_command)
RunResolveOptions ==
    /\ run_pc = "entry"
    /\ LET o == ResolveOptions(args, env, parent_exe)
       IN  IF o.kind = "Options"
           THEN /\ shell' = o.shell
                /\ check' = o.check
                /\ show_output' = o.show_output
                /\ show_command' = o.show_command
                /\ run_pc' = "call"
                /\ UNCHANGED result
           ELSE /\ result' = Raise(o.kind)
                /\ run_pc' = "done"
                /\ UNCHANGED <<shell, check, show_output, show_command>>
    /\ UNCHANGED <<call, sh_cwd, stdout_open, command_list, commands, sh_statements, child,
                   stream, reader, history, killed>>

\* A call at its entry, the options resolved: nothing is assembled, printed
\* or spawned yet.  The command list may be empty.
InitCall ==
    /\ shell \in ShellNames
    /\ check \in BOOLEAN
    /\ show_output \in BOOLEAN
    /\ show_command \in BOOLEAN
    /\ command_list \in CallCommandLists
    /\ commands = <<>>
    /\ sh_statements = <<>>
    /\ sh_state = "unspawned"
    /\ sh_pc = 1
    /\ sh_pipestatus = <<0>>
    /\ sh_exit = FALSE
    /\ stream = <<>>
    /\ capture_output = TRUE
    /\ output = <<>>
    /\ pipestatus = <<>>
    /\ pipestatus_list = <<>>
    /\ printed = <<>>
    /\ run_pc = "call"
    /\ result = NoResult
    /\ written = <<>>
    /\ executed = <<>>
    /\ reports = <<>>
    /\ killed = FALSE
    /\ args = [shell |-> Some(shell), check |-> Some(check), show_output |-> Some(show_output),
               show_command |-> Some(show_command)]
    /\ env = [SHELLRUNNER_SHELL |-> None, SHELLRUNNER_CHECK |-> None,
              SHELLRUNNER_SHOW_OUTPUT |-> None, SHELLRUNNER_SHOW_COMMAND |-> None]
    /\ parent_exe = None
    /\ sh_cwd = CallerCwd
    /\ stdout_open = FALSE

(***************************************************************************)
(* run, up to the spawn of the shell.                                      *)
(***************************************************************************)
Yellow == "ESC[33m"
Reset == "ESC[0m"

\* Variant: the assembled script is printed instead of the caller's commands.
PrintedScript(cl) == <<"shellrunner: ", Yellow>> \o commands \o <<Reset, "\n">>

\* print(f"shellrunner: \033[33m{'; '.join(command_list)}\033[0m")
PrintedCommand(cl) ==
    <<"shellrunner: ", Yellow>> \o Join([i \in 1..Len(cl) |-> <<cl[i]>>], <<"; ">>)
        \o <<Reset, "\n">>

\* commands = _build_commands(command_list, options)
RunBuild ==
    /\ run_pc = "call"
    /\ commands' = BuildCommands(command_list, shell, check)
    /\ command_list' = ListAfterBuild(command_list, shell, check)
    /\ run_pc' = "built"
    /\ UNCHANGED <<call, sh_cwd, stdout_open, shell, check, show_output, show_command, sh_statements, child,
                   stream, reader, result, history, killed>>

\* if show_command: print(...)
RunPrintCommand ==
    /\ run_pc = "built"
    /\ printed' = IF show_command THEN printed \o PrintedCommand(command_list) ELSE printed
    /\ run_pc' = "spawn"
    /\ UNCHANGED <<call, sh_cwd, stdout_open, options, child, stream, capture_output, output, pipestatus, pipestatus_list,
                   result, history, killed>>

\* subprocess.Popen(commands, shell=True, executable=options.shell, ...)
RunSpawn ==
    /\ run_pc = "spawn"
    /\ sh_statements' = ShellStatements(commands)
    /\ sh_state' = "running"
    /\ stdout_open' = TRUE
    /\ run_pc' = "read"
    /\ UNCHANGED <<call, sh_cwd, shell, check, show_output, show_command, command_list, commands, sh_pc,
                   sh_pipestatus, sh_exit, stream, reader, result, history, killed>>

(***************************************************************************)
(* The child shell.                                                        *)
(***************************************************************************)
Statement == sh_statements[sh_pc]

\* The line of the script the next statement starts on.
StatementLine == LineOf(sh_statements, sh_pc)

ShellCanStep == sh_state = "running" /\ ~sh_exit /\ sh_pc <= Len(sh_statements)

\* The shell runs the next user command: its output goes to the pipe.
ShellRunCommand ==
    /\ ShellCanStep
    /\ ~IsStatusCommand(Statement)
    /\ stdout_open \/ CommandWrites(shell, Statement[1], sh_cwd, commands, StatementLine) = <<>>
    /\ stream' = stream \o CommandWrites(shell, Statement[1], sh_cwd, commands, StatementLine)
    /\ written' = written \o CommandWrites(shell, Statement[1], sh_cwd, commands, StatementLine)
    /\ sh_cwd' = CwdAfter(Statement[1], sh_cwd)
    /\ sh_pipestatus' = PipelineStatus(shell, Statement[1])
    /\ executed' = Append(executed, Statement[1])
    /\ sh_pc' = sh_pc + 1
    /\ UNCHANGED <<call, stdout_open, options, sh_state, sh_exit, reader, run_pc, result, reports, killed>>

\* The shell runs the status check: the report is written, then the check
\* exits with the first non-zero status, which arms the exit clause if any.
ShellRunStatusCheck ==
    /\ ShellCanStep
    /\ IsStatusCommand(Statement)
    /\ stdout_open
    /\ LET text == Expand(Statement[ArgumentAt], sh_pipestatus)
       IN  /\ stream' = stream \o StatusCheckPrint(text)
           /\ written' = written \o StatusCheckPrint(text)
           /\ reports' = Append(reports, text)
           /\ sh_exit' = (HasExitClause(Statement) /\ StatusCheckExit(text) # 0)
           /\ sh_pipestatus' = <<StatusCheckExit(text)>>
    /\ sh_pc' = sh_pc + 1
    /\ UNCHANGED <<call, sh_cwd, stdout_open, options, sh_state, reader, run_pc, result, executed, killed>>

\* The shell exits, at the end of the script or through an exit clause: its
\* end of the pipe is closed.
ShellExit ==
    /\ sh_state = "running"
    /\ sh_exit \/ sh_pc > Len(sh_statements)
    /\ sh_state' = "closed"
    /\ UNCHANGED <<call, sh_cwd, stdout_open, options, sh_pc, sh_pipestatus, sh_exit, stream, reader, run_pc, result,
                   history, killed>>

\* The exited child becomes visible to poll().
ShellTerminate ==
    /\ sh_state = "closed"
    /\ sh_state' = "terminated"
    /\ UNCHANGED <<call, sh_cwd, stdout_open, options, sh_pc, sh_pipestatus, sh_exit, stream, reader, run_pc, result,
                   history, killed>>

\* The status of a process ended by SIGPIPE.
BrokenPipeStatus == 141

\* The exit status of the status check when its print meets a closed pipe:
\* the interpreter ignores SIGPIPE, so the write raises BrokenPipeError,
\* which ends it with 1 when its stdout is unbuffered and with 120 when the
\* failure comes with the flush at exit.
StatusCheckBrokenPipe == {1, 120}

\* The caller has closed its end of the pipe and the next statement writes.
\* The status check fails with a status of its own and the shell goes on,
\* into the exit clause if there is one.  The write of a user command ends
\* the shell itself (a builtin) or the program it runs, and then the shell
\* goes on with the status of SIGPIPE.
ShellBrokenPipe ==
    /\ ShellCanStep
    /\ ~stdout_open
    /\ IF IsStatusCommand(Statement)
       THEN /\ \E s \in StatusCheckBrokenPipe : sh_pipestatus' = <<s>>
            /\ sh_pc' = sh_pc + 1
            /\ sh_exit' = HasExitClause(Statement)
            /\ UNCHANGED <<sh_state, executed>>
       ELSE /\ CommandWrites(shell, Statement[1], sh_cwd, commands, StatementLine) # <<>>
            /\ \/ /\ sh_state' = "closed"
                  /\ UNCHANGED <<sh_pc, sh_pipestatus, sh_exit, executed>>
               \/ /\ sh_pc' = sh_pc + 1
                  /\ sh_pipestatus' = <<BrokenPipeStatus>>
                  /\ sh_exit' = FALSE
                  /\ executed' = Append(executed, Statement[1])
                  /\ UNCHANGED sh_state
    /\ UNCHANGED <<call, sh_cwd, stdout_open, options, stream, reader, run_pc, result, written, reports, killed>>

\* The shell is killed from outside while it is running: between two
\* statements, or while it waits for a program it has started.  A status
\* check whose shell is killed in that wait still writes its report, as an
\* orphan, and nothing of the script follows it: that is the step of the
\* check and then this one, which for the last check of the script, and for
\* a failing one with an exit clause, comes when the shell has nothing left
\* to do but exit.
Kill ==
    /\ sh_state = "running"
    /\ sh_state' = "closed"
    /\ killed' = TRUE
    /\ UNCHANGED <<call, sh_cwd, stdout_open, options, sh_pc, sh_pipestatus, sh_exit, stream, reader, run_pc, result,
                   history>>

(***************************************************************************)
(* The caller: while (out := process.stdout.read(1)) or poll() is None     *)
(***************************************************************************)
\* Variant: output += out sits under if options.show_output, with the print.
AccumulateIfShown(acc, toOutput, out) ==
    IF toOutput /\ show_output THEN acc \o out ELSE acc

\* output += out, in the branch taken when capture_output and out.
Accumulate(acc, toOutput, out) == IF toOutput THEN acc \o out ELSE acc

\* Variant: print(out, flush=True), without end="".
EchoLine(acc, toOutput, out) ==
    IF toOutput /\ show_output THEN acc \o out \o <<"\n">> ELSE acc

\* if options.show_output: print(out, end="", flush=True)
Echo(acc, toOutput, out) == IF toOutput /\ show_output THEN acc \o out ELSE acc

\* One pass of the loop body with the value out (<<c>> or <<>>).
LoopBody(out) ==
    LET capture == CaptureAfterOpen(capture_output, out)
        toOutput == capture /\ out # <<>>
        buffer == IF toOutput THEN pipestatus ELSE pipestatus \o out
        closing == out = <<CLOSE>>
    IN  /\ output' = Accumulate(output, toOutput, out)
        /\ printed' = Echo(printed, toOutput, out)
        /\ IF closing /\ buffer # <<>>
           THEN IF ~HasPayload(buffer)
                THEN /\ result' = Raise("IndexError")
                     /\ run_pc' = "unwind"
                     /\ pipestatus' = buffer
                     /\ UNCHANGED <<call, sh_cwd, stdout_open, pipestatus_list, capture_output>>
                ELSE IF ~AllInts(Payload(buffer))
                THEN /\ result' = Raise("ValueError")
                     /\ run_pc' = "unwind"
                     /\ pipestatus' = BufferAfterClose(buffer)
                     /\ UNCHANGED <<call, sh_cwd, stdout_open, pipestatus_list, capture_output>>
                ELSE /\ pipestatus' = BufferAfterClose(buffer)
                     /\ pipestatus_list' = ParsePipestatus(Payload(buffer))
                     /\ capture_output' = TRUE
                     /\ run_pc' = "read"
                     /\ UNCHANGED result
           ELSE /\ pipestatus' = buffer
                /\ capture_output' = (IF closing THEN TRUE ELSE capture)
                /\ run_pc' = "read"
                /\ UNCHANGED <<call, sh_cwd, stdout_open, pipestatus_list, result>>

\* read(1) returns a code point.
ReadCodePoint ==
    /\ run_pc = "read"
    /\ stream # <<>>
    /\ stream' = Tail(stream)
    /\ LoopBody(<<Head(stream)>>)
    /\ UNCHANGED <<call, sh_cwd, stdout_open, options, child, history, killed>>

\* Variant: the loop condition looks at poll() alone once the shell has
\* closed its end, whatever is left in the pipe.
ReadEndOfFileEarly ==
    /\ run_pc = "read"
    /\ sh_state # "running"
    /\ run_pc' = "poll"
    /\ UNCHANGED <<call, sh_cwd, stdout_open, options, child, stream, reader, result, history, killed>>

\* read(1) returns "" at end of file: the loop condition goes on to poll().
ReadEndOfFile ==
    /\ run_pc = "read"
    /\ stream = <<>>
    /\ sh_state # "running"
    /\ run_pc' = "poll"
    /\ UNCHANGED <<call, sh_cwd, stdout_open, options, child, stream, reader, result, history, killed>>

\* poll() is None: the body runs with out == "".
PollRunning ==
    /\ run_pc = "poll"
    /\ sh_state # "terminated"
    /\ LoopBody(<<>>)
    /\ UNCHANGED <<call, sh_cwd, stdout_open, options, child, stream, history, killed>>

\* Variant: the loop condition is (out := read(1)) or True.
PollExitedLoops ==
    /\ run_pc = "poll"
    /\ sh_state = "terminated"
    /\ LoopBody(<<>>)
    /\ UNCHANGED <<call, sh_cwd, stdout_open, options, child, stream, history, killed>>

\* poll() is not None: the loop ends, the with block is left, which closes
\* the pipe of the child that has exited, and _run_commands returns.
PollExited ==
    /\ run_pc = "poll"
    /\ sh_state = "terminated"
    /\ stdout_open' = FALSE
    /\ run_pc' = "returned"
    /\ UNCHANGED <<call, sh_cwd, options, child, stream, reader, result, history, killed>>

\* Variant: the child is opened without the with block, so an exception
\* raised in the loop goes on at once.
PopenExitAbsent ==
    /\ run_pc = "unwind"
    /\ run_pc' = "done"
    /\ UNCHANGED <<call, sh_cwd, stdout_open, options, child, stream, reader, result, history, killed>>

\* An exception raised in the loop leaves the with block: Popen.__exit__
\* closes the pipe, whatever the child is doing,
PopenExit ==
    /\ run_pc = "unwind"
    /\ stdout_open' = FALSE
    /\ run_pc' = "wait"
    /\ UNCHANGED <<call, sh_cwd, options, child, stream, reader, result, history, killed>>

\* and waits for the child; then the exception goes on to the caller.
PopenWait ==
    /\ run_pc = "wait"
    /\ sh_state = "terminated"
    /\ run_pc' = "done"
    /\ UNCHANGED <<call, sh_cwd, stdout_open, options, child, stream, reader, result, history, killed>>

\* run, after _run_commands has returned.
RunFinish ==
    /\ run_pc = "returned"
    /\ result' = Run(output, pipestatus_list, check)
    /\ run_pc' = "done"
    /\ UNCHANGED <<call, sh_cwd, stdout_open, options, child, stream, reader, history, killed>>

Next ==
    \/ ShellRunCommand
    \/ ShellRunStatusCheck
    \/ ShellExit
    \/ ShellTerminate
    \/ ReadCodePoint
    \/ ReadEndOfFile
    \/ PollRunning
    \/ PollExited
    \/ RunFinish

Spec == Init /\ [][Next]_vars

\* The same program in a world where the shell may be killed from outside.
NextKill == Next \/ Kill

SpecKill == Init /\ [][NextKill]_vars

\* The reader on what one pipeline and its report left in the pipe.
NextPipeline ==
    \/ ShellExit
    \/ ShellTerminate
    \/ ReadCodePoint
    \/ ReadEndOfFile
    \/ PollRunning
    \/ PollExited
    \/ RunFinish

SpecPipeline == InitPipeline /\ [][NextPipeline]_vars

\* The whole call, from its entry.
NextCall == RunBuild \/ RunPrintCommand \/ RunSpawn \/ Next

SpecCall == InitCall /\ [][NextCall]_vars

\* The whole call, from the resolution of its options.
NextOptions == RunResolveOptions \/ NextCall

SpecOptions == InitOptions /\ [][NextOptions]_vars

\* A call, made with show_command disabled, at the moment the shell has
\* been spawned: its shell is one of names, its list one of lists.
AtSpawn(names, lists) ==
    /\ shell \in names
    /\ check \in BOOLEAN
    /\ show_output \in BOOLEAN
    /\ show_command = FALSE
    /\ command_list \in lists
    /\ commands = BuildCommands(command_list, shell, check)
    /\ sh_statements = ShellStatements(commands)
    /\ sh_state = "running"
    /\ sh_pc = 1
    /\ sh_pipestatus = <<0>>
    /\ sh_exit = FALSE
    /\ stream = <<>>
    /\ capture_output = TRUE
    /\ output = <<>>
    /\ pipestatus = <<>>
    /\ pipestatus_list = <<>>
    /\ printed = <<>>
    /\ run_pc = "read"
    /\ result = NoResult
    /\ written = <<>>
    /\ executed = <<>>
    /\ reports = <<>>
    /\ killed = FALSE
    /\ args = [shell |-> Some(shell), check |-> Some(check), show_output |-> Some(show_output),
               show_command |-> Some(show_command)]
    /\ env = [SHELLRUNNER_SHELL |-> None, SHELLRUNNER_CHECK |-> None,
              SHELLRUNNER_SHOW_OUTPUT |-> None, SHELLRUNNER_SHOW_COMMAND |-> None]
    /\ parent_exe = None
    /\ sh_cwd = CallerCwd
    /\ stdout_open = TRUE

\* Calls whose commands change and show the working directory of the shell.
SessionCommands == {"cd /", "pwd", "echo a", "false"}
SessionLists == UNION {[1..n -> SessionCommands] : n \in 1..MaxCmds}

InitSession == AtSpawn({"bash", "sh"}, SessionLists)

\* The four shells of the tests on the calls they are compared on.
InitDialect == AtSpawn(Shells, DialectLists)

SpecDialect == InitDialect /\ [][Next]_vars

SpecSession == InitSession /\ [][Next]_vars

\* Calls whose commands may write a marker themselves, in a world where the
\* shell may be killed; an exception raised in the loop unwinds the with
\* block.
StrayLists == UNION {[1..n -> StrayCommands \cup {"echo a", "false"}] : n \in 1..MaxCmds}

InitStray == AtSpawn({"bash", "sh"}, StrayLists)

NextStray == NextKill \/ ShellBrokenPipe \/ PopenExit \/ PopenWait

SpecStray == InitStray /\ [][NextStray]_vars

\* The caller is one thread that keeps running: each of its steps is taken
\* when it stays possible.  Nothing is assumed of the child.
CallerFairness ==
    /\ WF_vars(ReadCodePoint)
    /\ WF_vars(ReadEndOfFile)
    /\ WF_vars(PollRunning)
    /\ WF_vars(PollExited)
    /\ WF_vars(RunFinish)
    /\ WF_vars(PopenExit)
    /\ WF_vars(PopenWait)

\* The calls the termination of the loop is checked on: an output, a
\* failure, and a forged report that makes the parse raise.
LiveLists == UNION {[1..n -> {"echo a", "false", "printf 'U+2F4CU+2F8F'"}] : n \in 1..MaxCmds}

InitLive == AtSpawn({"bash"}, LiveLists)

SpecLive == InitLive /\ [][NextStray]_vars /\ CallerFairness

(***************************************************************************)
(* The standalone variant, src/src/shellrunner.py: the function X.  It     *)
(* has a fourth flag, pipefail; it assembles the script, spawns the shell  *)
(* and reads its output with the code of run, so the steps of the child    *)
(* and of the read loop are the ones above.                                *)
(***************************************************************************)
\* _resolve_shell_path: which(shell, os.X_OK); None for FileNotFoundError.
X_resolve_shell_path(name) ==
    IF Which(name) = None THEN None
    ELSE IF ~Executable(Which(name)[1]) THEN None
    ELSE Some(RealPath(Which(name)[1]))

\* a or b, for a in None, True, False and b a boolean.
Or(a, b) == IF a = None THEN b ELSE IF a[1] THEN TRUE ELSE b

\* option if option is not None else Env.get_bool("...") or True: the
\* variable is read only when the argument is None; a conditional
\* expression binds weaker than or.
X_option(option_arg, env_var_value) ==
    IF option_arg # None THEN [error |-> FALSE, value |-> option_arg[1]]
    ELSE IF EnvGetBool(env_var_value).error THEN [error |-> TRUE, value |-> TRUE]
    ELSE [error |-> FALSE, value |-> Or(EnvGetBool(env_var_value).value, TRUE)]

\* The first statements of X: the shell, then the four flags in their order.
X_options(a, ev, exe) ==
    LET name == IF a.shell # None THEN a.shell[1]
                ELSE IF ev.SHELLRUNNER_SHELL # None THEN ev.SHELLRUNNER_SHELL[1] ELSE ""
        path == IF name # "" THEN X_resolve_shell_path(name) ELSE exe
        chk == X_option(a.check, ev.SHELLRUNNER_CHECK)
        pf == X_option(a.pipefail, ev.SHELLRUNNER_PIPEFAIL)
        out == X_option(a.show_output, ev.SHELLRUNNER_SHOW_OUTPUT)
        cmd == X_option(a.show_commands, ev.SHELLRUNNER_SHOW_COMMANDS)
        failure(kind) == [kind |-> kind, shell |-> "", check |-> TRUE, pipefail |-> TRUE,
                          show_output |-> TRUE, show_commands |-> TRUE]
    IN  IF path = None THEN failure("FileNotFoundError")
        ELSE IF chk.error \/ pf.error \/ out.error \/ cmd.error THEN failure("ValueError")
        ELSE [kind |-> "Options", shell |-> BaseName(path[1]), check |-> chk.value,
              pipefail |-> pf.value, show_output |-> out.value, show_commands |-> cmd.value]

\* status_check of X: the markers are written as escaped byte literals.
X_status_check ==
    <<"import sys", "\n", "pipestatus = sys.argv[1]", "\n",
      "print(", "b'", "\\\\u2f4c", "'.decode('unicode_escape')", " + f' : {pipestatus} : ' + ",
      "b'", "\\\\u2f8f", "'.decode('unicode_escape')", ", end='')", "\n",
      "for status in [int(x) for x in pipestatus.split()]:", "\n",
      "    if status != 0: sys.exit(status)">>

X_status_command(name, chk) ==
    <<sys_executable, "-c">> \o X_status_check \o <<pipestatus_var(name)>> \o exit_command(name, chk)

\* commands = command_list.copy(); the insert loop; "; ".join(commands)
X_commands(cl, name, chk) ==
    LET copy == [i \in 1..Len(cl) |-> <<cl[i]>>]
    IN  Join(InsertStatusCommands(copy, 1, Len(cl) * 2, X_status_command(name, chk)), <<"; ">>)

\* print(f"Executing: {'; '.join(command_list)}")
X_printed(cl) ==
    <<"Executing: ">> \o Join([i \in 1..Len(cl) |-> <<cl[i]>>], <<"; ">>) \o <<"\n">>

\* print("Unable to get exit status of command."), before the IndexError of
\* status_list[-1] is raised again.
X_unable(pl) ==
    IF pl = <<>> THEN <<"Unable to get exit status of command.", "\n">> ELSE <<>>

\* ResultTuple(output, status_list if command_was_pipeline else status)
ResultTuple(out, pl) ==
    [kind |-> "ResultTuple", out |-> out,
     status |-> IF Len(pl) > 1 THEN pl ELSE pl[Len(pl)]]

\* The end of X, after the with block.
X_result(out, pl, chk, pf) ==
    IF pf /\ Len(pl) > 1 /\ ScanForFailure(pl) THEN Raise("PipelineError")
    ELSE IF pl = <<>> THEN Raise("IndexError")
    ELSE IF chk /\ pl[Len(pl)] # 0 THEN Raise("ChildProcessError")
    ELSE ResultTuple(out, pl)

\* The values given to the flags of X and to their environment variables.
X_BoolEnvValues ==
    {None, Some(<<"F", "a", "l", "s", "e">>), Some(<<"T", "r", "u", "e">>),
     Some(<<"m", "a", "y", "b", "e">>)}
X_ShellArgs == {None, Some("bash"), Some("sh"), Some("invalidshell")}
\* The command lists X is called with: none, a failure, an output, a
\* pipeline, and two forged reports that make the parse of the loop raise.
X_CommandLists ==
    {<<>>, <<"false">>, <<"echo a">>, <<"true | false">>,
     <<"printf 'U+2F4CU+2F8F'">>, <<"printf 'U+2F4C : x : U+2F8F'">>}

\* A call of X at its entry: either no flag is passed and the variables
\* take every value, or every flag is passed and the variables all hold
\* the same value.
InitStandalone ==
    /\ \/ /\ args \in [shell : X_ShellArgs, check : {None}, pipefail : {None},
                       show_output : {None}, show_commands : {None}]
          /\ env \in [SHELLRUNNER_SHELL : {None}, SHELLRUNNER_CHECK : X_BoolEnvValues,
                      SHELLRUNNER_PIPEFAIL : X_BoolEnvValues,
                      SHELLRUNNER_SHOW_OUTPUT : X_BoolEnvValues,
                      SHELLRUNNER_SHOW_COMMANDS : X_BoolEnvValues]
       \/ /\ args \in [shell : {Some("bash")}, check : {Some(TRUE), Some(FALSE)},
                       pipefail : {Some(TRUE), Some(FALSE)},
                       show_output : {Some(TRUE), Some(FALSE)},
                       show_commands : {Some(TRUE), Some(FALSE)}]
          /\ \E v \in X_BoolEnvValues :
                env = [SHELLRUNNER_SHELL |-> None, SHELLRUNNER_CHECK |-> v,
                       SHELLRUNNER_PIPEFAIL |-> v, SHELLRUNNER_SHOW_OUTPUT |-> v,
                       SHELLRUNNER_SHOW_COMMANDS |-> v]
    /\ parent_exe = Some("/usr/bin/bash")
    /\ command_list \in X_CommandLists
    /\ shell = ""
    /\ check = TRUE
    /\ show_output = TRUE
    /\ show_command = TRUE
    /\ commands = <<>>
    /\ sh_statements = <<>>
    /\ sh_state = "unspawned"
    /\ sh_pc = 1
    /\ sh_pipestatus = <<0>>
    /\ sh_exit = FALSE
    /\ stream = <<>>
    /\ capture_output = TRUE
    /\ output = <<>>
    /\ pipestatus = <<>>
    /\ pipestatus_list = <<>>
    /\ printed = <<>>
    /\ run_pc = "entry"
    /\ result = NoResult
    /\ written = <<>>
    /\ executed = <<>>
    /\ reports = <<>>
    /\ killed = FALSE
    /\ sh_cwd = CallerCwd
    /\ stdout_open = FALSE

\* X, up to command_list = command.
X_Resolve ==
    /\ run_pc = "entry"
    /\ LET o == X_options(args, env, parent_exe)
       IN  IF o.kind = "Options"
           THEN /\ shell' = o.shell
                /\ check' = o.check
                /\ show_output' = o.show_output
                /\ show_command' = o.show_commands
                /\ run_pc' = "call"
                /\ UNCHANGED result
           ELSE /\ result' = Raise(o.kind)
                /\ run_pc' = "done"
                /\ UNCHANGED <<shell, check, show_output, show_command>>
    /\ UNCHANGED <<call, sh_cwd, stdout_open, command_list, commands, sh_statements, child,
                   stream, reader, history, killed>>

\* X assembles the script,
X_Build ==
    /\ run_pc = "call"
    /\ commands' = X_commands(command_list, shell, check)
    /\ run_pc' = "built"
    /\ UNCHANGED <<call, sh_cwd, stdout_open, shell, check, show_output, show_command,
                   command_list, sh_statements, child, stream, reader, result, history, killed>>

\* prints the commands when show_commands is set,
X_PrintCommands ==
    /\ run_pc = "built"
    /\ printed' = IF show_command THEN printed \o X_printed(command_list) ELSE printed
    /\ run_pc' = "spawn"
    /\ UNCHANGED <<call, sh_cwd, stdout_open, options, child, stream, capture_output, output,
                   pipestatus, pipestatus_list, result, history, killed>>

\* and, the shell spawned and its output read to the end, returns or
\* raises; a missing status is reported on stdout before the raise.
X_Finish ==
    /\ run_pc = "returned"
    /\ result' = X_result(output, pipestatus_list, check,
                          X_options(args, env, parent_exe).pipefail)
    /\ printed' = printed \o X_unable(pipestatus_list)
    /\ run_pc' = "done"
    /\ UNCHANGED <<call, sh_cwd, stdout_open, options, child, stream, capture_output, output,
                   pipestatus, pipestatus_list, history, killed>>

NextStandalone ==
    \/ X_Resolve
    \/ X_Build
    \/ X_PrintCommands
    \/ RunSpawn
    \/ ShellRunCommand
    \/ ShellRunStatusCheck
    \/ ShellExit
    \/ ShellTerminate
    \/ ReadCodePoint
    \/ ReadEndOfFile
    \/ PollRunning
    \/ PollExited
    \/ ShellBrokenPipe
    \/ PopenExit
    \/ PopenWait
    \/ X_Finish

SpecStandalone == InitStandalone /\ [][NextStandalone]_vars

(***************************************************************************)
(* Vocabulary of the properties.                                           *)
(***************************************************************************)
Done == run_pc = "done"
Returned == result.kind = "ShellCommandResult"
RaisedCommandError == result.kind = "ShellCommandError"
RaisedRunnerError == result.kind = "ShellRunnerError"
CarriesResult == Returned \/ RaisedCommandError
LoopFailed == result.kind \in {"IndexError", "ValueError"}

NonZeroAt(pl) == {i \in 1..Len(pl) : pl[i] # 0}
Max(S) == CHOOSE x \in S : \A y \in S : y <= x
Min(S) == CHOOSE x \in S : \A y \in S : x <= y

\* The rightmost non-zero value of pl, or its final element when all are zero.
LastNonZero(pl) == IF NonZeroAt(pl) = {} THEN pl[Len(pl)] ELSE pl[Max(NonZeroAt(pl))]

\* s without its trailing whitespace: the longest prefix that is empty or
\* ends in a code point that is not whitespace.
TrailingTrimmed(s) ==
    LET ends == {k \in 0..Len(s) : k = 0 \/ s[k] \notin Whitespace}
    IN  SubSeq(s, 1, Max(ends))

(***************************************************************************)
(* C1: the status of every result (returned or carried by                  *)
(* ShellCommandError) is the rightmost non-zero value of its pipestatus,   *)
(* and is the final element, 0, when every value is zero.                  *)
(***************************************************************************)
C1_StatusIsLastNonZero ==
    CarriesResult =>
        /\ result.status = LastNonZero(result.pipestatus)
        /\ NonZeroAt(result.pipestatus) = {} => result.status = 0

\* pipestatus [1, 2, 0] gives status 2.
C1_Witness == CarriesResult /\ result.pipestatus = <<1, 2, 0>> /\ result.status = 2

(***************************************************************************)
(* C2: with check enabled, when the final pipestatus holds a non-zero      *)
(* value run raises ShellCommandError, and the error carries the visible   *)
(* output with trailing whitespace trimmed, the aggregated status and the  *)
(* full pipestatus.                                                        *)
(***************************************************************************)
C2_CheckRaisesWithResult ==
    (Done /\ check /\ ~LoopFailed /\ NonZeroAt(pipestatus_list) # {}) =>
        /\ RaisedCommandError
        /\ result.out = TrailingTrimmed(output)
        /\ result.status = LastNonZero(pipestatus_list)
        /\ result.pipestatus = pipestatus_list

\* A failure in a stage that is not the last one, after output was captured.
C2_Witness ==
    /\ Done /\ check /\ RaisedCommandError
    /\ pipestatus_list = <<1, 0>>
    /\ output = <<"a", "\n", "b", "\n">>
    /\ result.out = <<"a", "\n", "b">>

\* The statuses a command's report carries in the dialect of the shell.
SupportsPipestatus == shell \in {"bash", "zsh", "fish"}
Reported(c) ==
    IF SupportsPipestatus THEN PipelineStatus(shell, c)
    ELSE <<CommandStages(c)[Len(CommandStages(c))]>>

\* The text of a report names a non-zero status.
ReportFails(text) == \E i \in 1..Len(text) : text[i] \notin {"0", " "}

FailingReports == {k \in 1..Len(reports) : ReportFails(reports[k])}

LastCommand == command_list[Len(command_list)]

\* The decimal text of a sequence of statuses.
TextOf(pl) == Join([i \in 1..Len(pl) |-> IntToStr(pl[i])], <<" ">>)

(***************************************************************************)
(* C3: with check enabled, once a command has reported a non-zero stage    *)
(* status no later command of the list is executed, nothing more is        *)
(* written to the stream (no output, no report), and run raises            *)
(* ShellCommandError with the pipestatus of the first failing command in   *)
(* list order.                                                             *)
(***************************************************************************)
C3_CheckStopsAtFirstFailure ==
    (check /\ FailingReports # {}) =>
        LET f == Min(FailingReports)
        IN  /\ Len(reports) = f
            /\ executed = SubSeq(command_list, 1, f)
            /\ written[Len(written)] = CLOSE
            /\ Done =>
                 /\ RaisedCommandError
                 /\ result.pipestatus = Reported(command_list[f])
                 /\ \A j \in 1..(f - 1) : NonZeroAt(Reported(command_list[j])) = {}

\* The first of two commands fails in its first stage: the second never runs.
C3_Witness ==
    /\ check /\ Done /\ RaisedCommandError
    /\ Len(command_list) = 2
    /\ executed = <<"false | echo b">>
    /\ result.pipestatus = <<1, 0>>

(***************************************************************************)
(* C4: with check disabled run never raises ShellCommandError, the         *)
(* commands are executed in list order with one status report each, a      *)
(* failing command does not stop the later ones, and the returned          *)
(* pipestatus and status are those the last command reported.              *)
(***************************************************************************)
C4_NoCheckRunsEverything ==
    ~check =>
        /\ ~RaisedCommandError
        /\ executed = SubSeq(command_list, 1, Len(executed))
        /\ Len(reports) \in {Len(executed) - 1, Len(executed)}
        /\ Done =>
             /\ Returned
             /\ executed = command_list
             /\ Len(reports) = Len(command_list)
             /\ result.pipestatus = Reported(LastCommand)
             /\ result.status = LastNonZero(Reported(LastCommand))

\* A failing first command, and a last command whose failure is returned.
C4_Witness ==
    /\ ~check /\ Done /\ Returned
    /\ command_list = <<"false", "true | false">>
    /\ executed = command_list
    /\ result.pipestatus = <<0, 1>>
    /\ result.status = 1

(***************************************************************************)
(* C5: when several status reports were captured, the pipestatus and the   *)
(* status of the result come from the last captured report alone (the      *)
(* values of earlier reports are not merged in), and for a returned result *)
(* that report is the one of the last command of the list.                 *)
(***************************************************************************)
C5_OnlyLastReportCounts ==
    (Done /\ CarriesResult /\ Len(reports) >= 2) =>
        /\ TextOf(result.pipestatus) = reports[Len(reports)]
        /\ result.status = LastNonZero(result.pipestatus)
        /\ Returned => Len(reports) = Len(command_list)

\* A two-stage pipeline followed by a single command: only [0] is returned.
C5_Witness ==
    /\ Done /\ Returned
    /\ reports = << <<"1", " ", "0">>, <<"0">> >>
    /\ result.pipestatus = <<0>>
    /\ result.status = 0

(***************************************************************************)
(* C6: a single command of one stage that exits with N: N = 0 returns      *)
(* status 0 and pipestatus [0]; N # 0 raises ShellCommandError with status *)
(* N and pipestatus [N] when check is enabled, and returns them when it is *)
(* disabled; on every dialect.                                             *)
(***************************************************************************)
C6_SingleCommand ==
    (Done /\ Len(command_list) = 1 /\ Len(CommandStages(command_list[1])) = 1) =>
        LET N == CommandStages(command_list[1])[1]
        IN  /\ result.status = N
            /\ result.pipestatus = <<N>>
            /\ N = 0 => Returned
            /\ (N # 0 /\ check) => RaisedCommandError
            /\ (N # 0 /\ ~check) => Returned

\* A command that exits with 2 under check.
C6_Witness ==
    /\ Done /\ check
    /\ command_list = <<"bash -c 'exit 2'">>
    /\ RaisedCommandError /\ result.status = 2 /\ result.pipestatus = <<2>>

(***************************************************************************)
(* C7: when the last command of the list is a pipeline of k stages, bash,  *)
(* zsh and fish give a pipestatus of its k statuses in stage order; every  *)
(* other dialect gives one value, the status of the final stage, so a      *)
(* failure of an earlier stage does not raise even with check enabled.     *)
(***************************************************************************)
C7_PipestatusPerDialect ==
    (Done /\ CarriesResult /\ executed = command_list) =>
        LET st == CommandStages(LastCommand)
        IN  /\ SupportsPipestatus => result.pipestatus = st
            /\ ~SupportsPipestatus =>
                 /\ result.pipestatus = <<st[Len(st)]>>
                 /\ st[Len(st)] = 0 => Returned

\* fish is given a pipeline with an unknown command as the last command.
FishRefuses == shell = "fish" /\ LastCommand \in UnknownInPipeline

\* C7, amended: when the last command of the list is a pipeline of k
\* stages, bash and zsh give a pipestatus of its k statuses in stage order,
\* and so does fish unless a command of the pipeline is unknown: then fish
\* runs none of it and gives the single value 127.  Every other dialect
\* gives one value, the status of the final stage, so a failure of an
\* earlier stage does not raise even with check enabled.
C7_PipestatusPerDialectAmended ==
    (Done /\ CarriesResult /\ executed = command_list) =>
        LET st == CommandStages(LastCommand)
        IN  /\ (SupportsPipestatus /\ ~FishRefuses) => result.pipestatus = st
            /\ FishRefuses =>
                 /\ result.pipestatus = <<127>>
                 /\ result.status = 127
                 /\ check => RaisedCommandError
            /\ ~SupportsPipestatus =>
                 /\ result.pipestatus = <<st[Len(st)]>>
                 /\ st[Len(st)] = 0 => Returned

\* fish, check enabled, after an output: the pipeline of two stages with
\* the unknown command leaves one status, not two.
C7_Witness ==
    /\ Done /\ check /\ shell = "fish"
    /\ command_list = <<"echo a", "true | foo">>
    /\ RaisedCommandError /\ result.pipestatus = <<127>> /\ result.status = 127

\* sh, check enabled: the failing first stage of the pipeline is not seen.
C7_WitnessPosix ==
    /\ Done /\ check /\ shell = "sh"
    /\ command_list = <<"false | echo b">>
    /\ Returned /\ result.pipestatus = <<0>> /\ result.status = 0

\* bash, the same pipeline as in C7_Witness: both statuses, in stage order.
C7_WitnessStages ==
    /\ Done /\ check /\ shell = "bash"
    /\ command_list = <<"true | foo">>
    /\ RaisedCommandError /\ result.pipestatus = <<0, 127>> /\ result.status = 127

\* The code points the reader has taken from the stream so far.
Consumed == SubSeq(written, 1, Len(written) - Len(stream))

\* Position i of s lies in an OPEN..CLOSE span: an OPEN at or before i has
\* no CLOSE between it and i (the closing marker belongs to the span; an
\* unclosed span runs to the end).
InSpan(s, i) == \E o \in 1..i : s[o] = OPEN /\ \A j \in o..(i - 1) : s[j] # CLOSE

\* The code points of s outside every span, in order.
RECURSIVE OutsideUpTo(_, _)
OutsideUpTo(s, n) ==
    IF n = 0 THEN <<>>
    ELSE OutsideUpTo(s, n - 1) \o (IF InSpan(s, n) THEN <<>> ELSE <<s[n]>>)

Outside(s) == OutsideUpTo(s, Len(s))

\* The outputs of a sequence of commands, one after the other.
\* The line of the script the n-th command of the list stands on: it is the
\* statement 2n - 1, a status check following each command.
LineOfCommand(n) == LineOf(ShellStatements(commands), 2 * n - 1)

RECURSIVE OutputsUpTo(_, _)
OutputsUpTo(cmds, n) ==
    IF n = 0 THEN <<>>
    ELSE OutputsUpTo(cmds, n - 1) \o CommandOutput(shell, cmds[n], commands, LineOfCommand(n))

OutputsOf(cmds) == OutputsUpTo(cmds, Len(cmds))

(***************************************************************************)
(* C8: at every step the visible output is exactly the code points read so *)
(* far that lie outside every OPEN..CLOSE span, in stream order, and the   *)
(* live echo (when enabled) is the same text; no marker or payload code    *)
(* point is in it, and whenever all that was written has been read it is   *)
(* the outputs of the executed commands concatenated in list order.        *)
(***************************************************************************)
C8_VisibleOutputIsOutsideSpans ==
    ~LoopFailed =>
        /\ output = Outside(Consumed)
        /\ show_output => printed = output
        /\ \A i \in 1..Len(output) : output[i] \notin {OPEN, CLOSE, ":"}
        /\ stream = <<>> => output = OutputsOf(executed)

\* Two commands with different outputs, both echoed and returned in order.
C8_Witness ==
    /\ Done /\ Returned /\ show_output
    /\ executed = <<"false | echo b", "echo a">>
    /\ output = <<"b", "\n", "a", "\n">>
    /\ printed = output

(***************************************************************************)
(* C9: when the stream ends and no status values were captured, run raises *)
(* ShellRunnerError with check enabled and with check disabled; so every   *)
(* returned result and every ShellCommandError has a non-empty pipestatus. *)
(***************************************************************************)
C9_NoStatusIsRunnerError ==
    /\ (Done /\ ~LoopFailed /\ pipestatus_list = <<>>) => RaisedRunnerError
    /\ CarriesResult => result.pipestatus # <<>>

\* The shell is killed after the first command wrote its output and before
\* the status check ran; check is disabled.
C9_Witness ==
    /\ Done /\ ~check /\ killed
    /\ output = <<"a", "\n">>
    /\ pipestatus_list = <<>>
    /\ RaisedRunnerError

(***************************************************************************)
(* C10: when the shell is killed before it has finished the script, so     *)
(* that the status report of some command never arrives, run ends with     *)
(* ShellRunnerError and does not return a result as if the list had        *)
(* completed.                                                              *)
(***************************************************************************)
C10_KilledIsRunnerError == (Done /\ killed) => RaisedRunnerError

(***************************************************************************)
(* The assembled script.                                                   *)
(***************************************************************************)
Built == run_pc # "call"
Spawned == sh_state # "unspawned"
Count(seq, word) == Cardinality({k \in DOMAIN seq : seq[k] = word})
Contains(seq, word) == \E k \in DOMAIN seq : seq[k] = word
StatusStatementsAt == {i \in DOMAIN sh_statements : IsStatusCommand(sh_statements[i])}

\* C11: for a non-empty list of n commands the script is 2n statements joined
\* by "; ": the commands in their order, each immediately followed by one
\* status-report invocation, so n invocations in all.
C11_ScriptInterleavesReports ==
    LET n == Len(command_list)
    IN  (n > 0) =>
          /\ Built => /\ Count(commands, "; ") = 2 * n - 1
                      /\ Count(commands, sys_executable) = n
          /\ Spawned =>
               /\ Len(sh_statements) = 2 * n
               /\ \A i \in 1..n :
                    /\ sh_statements[2 * i - 1] = <<command_list[i]>>
                    /\ Len(sh_statements[2 * i]) >= 2 + Len(status_check)
                    /\ SubSeq(sh_statements[2 * i], 1, 2 + Len(status_check))
                         = <<sys_executable, "-c">> \o status_check

C11_Witness ==
    /\ Len(command_list) = 2
    /\ command_list[1] # command_list[2]
    /\ Spawned
    /\ Len(sh_statements) = 4
    /\ StatusStatementsAt = {2, 4}

\* The last-status expression of each dialect, as the spec tabulates it.
LastStatusExpr == IF shell \in {"zsh", "fish"} THEN "$status" ELSE "$?"
AllStatusesExpr ==
    IF shell = "bash" THEN "${PIPESTATUS[*]}"
    ELSE IF shell \in {"zsh", "fish"} THEN "$pipestatus"
    ELSE "$?"

\* C12: every status-report invocation ends with || exit "<last status>" if
\* and only if check is enabled; with check disabled the script has no exit
\* clause anywhere.
C12_ExitClauseIffCheck ==
    /\ (Built /\ ~check) => ~Contains(commands, "||") /\ ~Contains(commands, "exit")
    /\ (Spawned /\ check) =>
         \A i \in StatusStatementsAt :
            LET st == sh_statements[i]
            IN  /\ Len(st) = ArgumentAt + 3
                /\ SubSeq(st, ArgumentAt + 1, Len(st)) = <<"||", "exit", LastStatusExpr>>
    /\ Built => Count(commands, "||") = (IF check THEN Len(command_list) ELSE 0)

C12_Witness ==
    /\ check
    /\ Spawned
    /\ Len(command_list) = 2
    /\ Count(commands, "||") = 2
    /\ sh_statements[4][Len(sh_statements[4])] = "$?"

\* C13: the dialect follows the base name of the shell: bash reads $? and
\* ${PIPESTATUS[*]}, zsh and fish read $status and $pipestatus, every other
\* name, sh included, reads $? for both; every name has a dialect.
C13_DialectByName ==
    /\ status_var(shell) \in {"$?", "$status"}
    /\ pipestatus_var(shell) \in {"$?", "${PIPESTATUS[*]}", "$pipestatus"}
    /\ Spawned =>
         \A i \in StatusStatementsAt :
            LET st == sh_statements[i]
            IN  /\ st[ArgumentAt] = AllStatusesExpr
                /\ check => st[Len(st)] = LastStatusExpr
                /\ shell \notin {"bash", "zsh", "fish"} => st[ArgumentAt] = "$?"

C13_Witness ==
    /\ shell = "dash"
    /\ check
    /\ Spawned
    /\ StatusStatementsAt # {}
    /\ \A i \in StatusStatementsAt :
          sh_statements[i][ArgumentAt] = "$?" /\ sh_statements[i][ArgumentAt + 3] = "$?"

\* C14: an empty command list is rejected as invalid input: no script is
\* run for it, the call fails with an invalid-argument error.
C14_EmptyListRejected ==
    (command_list = <<>>) =>
        /\ sh_state = "unspawned"
        /\ Done => result.kind = "InvalidArgument"

\* C17: the script never holds either marker itself: it holds their escapes,
\* and the markers come into being when the reporter runs and prints them.
C17_ScriptHidesMarkers ==
    /\ ~Contains(commands, OPEN) /\ ~Contains(commands, CLOSE)
    /\ (Built /\ command_list # <<>>) =>
          /\ Count(commands, OpenEscape) = Len(command_list)
          /\ Count(commands, CloseEscape) = Len(command_list)
    /\ Count(written, OPEN) = Len(reports)
    /\ Count(written, CLOSE) = Len(reports)

C17_Witness ==
    /\ Len(reports) = 2
    /\ Count(commands, OpenEscape) = 2
    /\ ~Contains(commands, OPEN)
    /\ Count(written, OPEN) = 2
    /\ Count(written, CLOSE) = 2

(***************************************************************************)
(* The status reporter.                                                    *)
(***************************************************************************)
\* A report as the spec spells it: OPEN, " : ", the text, " : ", CLOSE.
ReportOf(text) == <<OPEN, " ", ":", " ">> \o text \o <<" ", ":", " ", CLOSE>>

\* What the child has written after k commands: the output of each, each
\* followed at once by its report when the reporter has run for it.
RECURSIVE WrittenUpTo(_)
WrittenUpTo(k) ==
    IF k = 0 THEN <<>>
    ELSE WrittenUpTo(k - 1) \o CommandOutput(shell, executed[k], commands, LineOfCommand(k))
            \o (IF k <= Len(reports) THEN ReportOf(reports[k]) ELSE <<>>)

FirstNonZeroOf(pl) == IF NonZeroAt(pl) = {} THEN 0 ELSE pl[Min(NonZeroAt(pl))]

ReporterRanLast == reports # <<>> /\ Len(reports) = Len(executed)

\* C15: the reporter writes OPEN, " : ", the text it was given, " : ", CLOSE
\* and no newline after it, and exits with the first non-zero integer of the
\* text in order, or with 0 when all are zero.
C15_ReporterPrintsAndExits ==
    /\ written = WrittenUpTo(Len(executed))
    /\ \A k \in 1..Len(reports) : reports[k] = TextOf(Reported(executed[k]))
    /\ ReporterRanLast =>
          sh_pipestatus = <<FirstNonZeroOf(Reported(executed[Len(executed)]))>>

C15_Witness ==
    /\ shell = "bash"
    /\ ReporterRanLast
    /\ Len(reports) = 2
    /\ reports[2] = <<"1", " ", "2", " ", "0">>
    /\ sh_pipestatus = <<1>>
    /\ written[Len(written)] = CLOSE
    /\ executed[1] = "echo a"

EndsWith(seq, tail) ==
    /\ Len(seq) >= Len(tail)
    /\ SubSeq(seq, Len(seq) - Len(tail) + 1, Len(seq)) = tail

\* C16: the report of a command is complete in the stream before the
\* reporter exits, hence before the shell can leave through the exit clause:
\* whenever check aborts the script, the report of the failing command has
\* been written and the reader captures it.
C16_ReportPrecedesExit ==
    /\ sh_exit =>
          /\ check
          /\ ReporterRanLast
          /\ ReportFails(reports[Len(reports)])
          /\ EndsWith(written, ReportOf(reports[Len(reports)]))
    /\ (sh_exit /\ run_pc \in {"returned", "done"}) =>
          /\ stream = <<>>
          /\ pipestatus_list = Reported(executed[Len(executed)])
    /\ (sh_exit /\ Done) =>
          /\ RaisedCommandError
          /\ TextOf(result.pipestatus) = reports[Len(reports)]

C16_Witness ==
    /\ sh_exit
    /\ Done
    /\ Len(command_list) = 2
    /\ executed = <<"false | echo b">>
    /\ RaisedCommandError
    /\ result.pipestatus = <<1, 0>>

(***************************************************************************)
(* The report of one pipeline, from the reporter to the result.            *)
(***************************************************************************)
LoopEnded == run_pc \in {"returned", "done"}

\* The text the reporter is given for the statuses pl under this shell.
Formatted(pl) == Expand(pipestatus_var(shell), pl)

\* C18: for every sequence S of non-negative integers, the report the
\* reporter writes for S, read back through the capture and the parse of
\* the reader, yields exactly S.
C18_ReportRoundTrip ==
    LoopEnded =>
        \A S \in StatusSeqs :
            (reports = <<Formatted(S)>>) =>
                /\ pipestatus_list = S
                /\ Done => CarriesResult /\ result.pipestatus = S

C18_Witness ==
    /\ Done
    /\ reports = <<Formatted(<<10, 0, 127>>)>>
    /\ CarriesResult
    /\ result.pipestatus = <<10, 0, 127>>

\* C19: the out of a result, returned or carried by ShellCommandError, is
\* the visible output without its trailing whitespace, leading and interior
\* whitespace kept; a run without output gives the empty out and is no error
\* for that.
C19_OutIsTrailingTrimmed ==
    Done =>
        /\ CarriesResult
        /\ written = output \o ReportOf(reports[1])
        /\ result.out = TrailingTrimmed(output)
        /\ \E n \in 0..Len(output) :
              /\ result.out = SubSeq(output, 1, n)
              /\ \A k \in (n + 1)..Len(output) : output[k] \in Whitespace
              /\ n > 0 => output[n] \notin Whitespace
        /\ (output = <<>> /\ (~check \/ NonZeroAt(pipestatus_list) = {})) =>
              Returned /\ result.out = <<>>

C19_Witness ==
    /\ Done
    /\ Returned
    /\ output = <<" ", "a", " ", "b", "\n", " ">>
    /\ result.out = <<" ", "a", " ", "b">>

(***************************************************************************)
(* The command line run prints.                                            *)
(***************************************************************************)
\* The caller's commands with "; " between them.
CommandsJoined ==
    [k \in 1..(2 * Len(command_list) - 1) |->
        IF k % 2 = 1 THEN command_list[(k + 1) \div 2] ELSE "; "]

CommandLine == <<"shellrunner: ", Yellow>> \o CommandsJoined \o <<Reset, "\n">>

Echoed == IF show_output THEN output ELSE <<>>

\* Words only a status-report invocation brings into a script.
InjectedWords ==
    {sys_executable, "-c", "import sys", OpenEscape, CloseEscape, "||", "exit",
     "$?", "$status", "$pipestatus", "${PIPESTATUS[*]}"}

\* C20: with show_command, run prints the caller's commands joined by "; "
\* exactly once, before the shell is spawned and so before any output is
\* echoed, and never the injected status-report invocation; without it
\* nothing is printed for the command.
C20_CommandPrintedOnceBeforeSpawn ==
    /\ ~Spawned => output = <<>> /\ written = <<>>
    /\ run_pc \in {"call", "built"} => printed = <<>>
    /\ (show_command /\ run_pc \notin {"call", "built"}) =>
          /\ printed = CommandLine \o Echoed
          /\ Count(printed, "shellrunner: ") = 1
    /\ ~show_command => printed = Echoed
    /\ \A word \in InjectedWords : ~Contains(printed, word)

C20_Witness ==
    /\ show_command
    /\ show_output
    /\ Done
    /\ Len(command_list) = 2
    /\ output # <<>>
    /\ printed = <<"shellrunner: ", Yellow, "false | echo b", "; ", "echo a", Reset, "\n">> \o output

(***************************************************************************)
(* The outcome of a call as a function of what does not concern printing.  *)
(***************************************************************************)
\* The commands the shell gets to run: with check, those up to and
\* including the first one that reports a non-zero status.
FailingAt(cl) == {i \in 1..Len(cl) : NonZeroAt(Reported(cl[i])) # {}}
RunPrefix(cl, chk) ==
    IF chk /\ FailingAt(cl) # {} THEN SubSeq(cl, 1, Min(FailingAt(cl))) ELSE cl

\* What run returns or raises for the list cl under check chk: nothing in it
\* refers to show_output or show_command.
Outcome(cl, chk) ==
    LET ran == RunPrefix(cl, chk)
        pl == Reported(ran[Len(ran)])
        kind == IF chk /\ NonZeroAt(pl) # {} THEN "ShellCommandError" ELSE "ShellCommandResult"
    IN  IF cl = <<>> THEN Raise("ShellRunnerError")
        ELSE [kind |-> kind, out |-> TrailingTrimmed(OutputsOf(ran)),
              status |-> LastNonZero(pl), pipestatus |-> pl]

\* C21: show_output and show_command bear on what is printed only: the
\* result or error of a call is the one its shell, check and commands fix,
\* the same for the four settings of the two flags.
C21_FlagsOnlyAffectPrinting ==
    /\ Done => result = Outcome(command_list, check)
    /\ LoopEnded => output = OutputsOf(RunPrefix(command_list, check))

C21_Witness ==
    /\ Done
    /\ ~show_output
    /\ ~show_command
    /\ printed = <<>>
    /\ command_list = <<"echo a", "false | echo b">>
    /\ result.out = <<"a", "\n", "b">>

(***************************************************************************)
(* The resolution of the options.                                          *)
(***************************************************************************)
Resolved == run_pc # "entry"
RaisedResolutionError == result.kind = "ShellResolutionError"
RaisedEnvironmentError == result.kind = "EnvironmentVariableError"

\* Nothing of the call has reached the outside: no print, no script, no child.
NothingDone ==
    /\ printed = <<>>
    /\ commands = <<>>
    /\ sh_state = "unspawned"
    /\ ~stdout_open
    /\ executed = <<>>
    /\ written = <<>>

\* value reads as word, whatever the case of its letters.
ReadsAs(value, word) ==
    /\ Len(value) = Len(word)
    /\ \A i \in 1..Len(word) : LowerOf(value[i]) = word[i]

\* What an environment variable says of a flag: a boolean, the default when
\* it is unset, None when it says nothing valid.
Meaning(variable) ==
    IF variable = None THEN Some(TRUE)
    ELSE IF ReadsAs(variable[1], <<"t", "r", "u", "e">>) THEN Some(TRUE)
    ELSE IF ReadsAs(variable[1], <<"f", "a", "l", "s", "e">>) THEN Some(FALSE)
    ELSE None

FlagNames == {"check", "show_output", "show_command"}
ArgOf(flag) ==
    CASE flag = "check" -> args.check
      [] flag = "show_output" -> args.show_output
      [] flag = "show_command" -> args.show_command
EnvOf(flag) ==
    CASE flag = "check" -> env.SHELLRUNNER_CHECK
      [] flag = "show_output" -> env.SHELLRUNNER_SHOW_OUTPUT
      [] flag = "show_command" -> env.SHELLRUNNER_SHOW_COMMAND
OptionOf(flag) ==
    CASE flag = "check" -> check
      [] flag = "show_output" -> show_output
      [] flag = "show_command" -> show_command

\* C22: an argument passed explicitly takes precedence over its environment
\* variable: whatever the variable holds, the call goes on with the value
\* of the argument and ends as that value has it end.
C22_ArgumentsOverrideEnvironment ==
    (Resolved /\ ~RaisedResolutionError /\ \A flag \in FlagNames : ArgOf(flag) # None) =>
        /\ ~RaisedEnvironmentError
        /\ \A flag \in FlagNames : OptionOf(flag) = ArgOf(flag)[1]
        /\ Done => result = Outcome(command_list, args.check[1])

\* C23: a flag that is not passed takes the value of its environment
\* variable, read as True or False whatever the case, and True when the
\* variable is unset; any other value of the variable makes run raise
\* EnvironmentVariableError before anything is printed or executed.  The
\* shell is resolved first: the statement is about the calls whose shell
\* resolves.
C23_FlagsFromEnvironment ==
    (Resolved /\ ~RaisedResolutionError) =>
        /\ \A flag \in FlagNames :
              (ArgOf(flag) = None /\ Meaning(EnvOf(flag)) = None) =>
                  Done /\ RaisedEnvironmentError /\ NothingDone
        /\ (\A flag \in FlagNames : Meaning(EnvOf(flag)) # None) => ~RaisedEnvironmentError
        /\ ~RaisedEnvironmentError =>
              \A flag \in FlagNames :
                  ArgOf(flag) = None => OptionOf(flag) = Meaning(EnvOf(flag))[1]

C23_Witness ==
    /\ Done
    /\ args.check = None
    /\ env.SHELLRUNNER_CHECK = Some(<<"f", "A", "l", "S", "e">>)
    /\ args.show_output = None
    /\ env.SHELLRUNNER_SHOW_OUTPUT = None
    /\ ~check
    /\ show_output
    /\ Returned
    /\ result.status = 1
    /\ printed # <<>>

\* The shell the call names: the argument, else the variable, else none.
NamedShell ==
    IF args.shell # None THEN args.shell[1]
    ELSE IF env.SHELLRUNNER_SHELL # None THEN env.SHELLRUNNER_SHELL[1]
    ELSE ""

\* The ways the resolution of the shell fails.
ShellNotFound == NamedShell # "" /\ Which(NamedShell) = None
ShellNotExecutable ==
    NamedShell # "" /\ Which(NamedShell) # None /\ ~Executable(Which(NamedShell)[1])
ShellIsPython ==
    \/ NamedShell = "python3"
    \/ NamedShell = "" /\ parent_exe = Some("/usr/local/bin/python3.11")
ParentUnknown == NamedShell = "" /\ parent_exe = None
ResolutionFails == ShellNotFound \/ ShellNotExecutable \/ ShellIsPython \/ ParentUnknown

\* C24: every failure to resolve the shell (not found, not executable, a
\* Python interpreter) makes run raise ShellResolutionError before the
\* command is printed, a script assembled or a child spawned.
C24_ResolutionFailsFirst ==
    /\ (Resolved /\ ResolutionFails) => Done /\ RaisedResolutionError
    /\ RaisedResolutionError => ResolutionFails /\ NothingDone

C24_Witness ==
    /\ Done
    /\ args.shell = Some("python3")
    /\ env.SHELLRUNNER_CHECK = Some(<<"m", "a", "y", "b", "e">>)
    /\ RaisedResolutionError
    /\ NothingDone

(***************************************************************************)
(* One shell for the whole list.                                           *)
(***************************************************************************)
\* The directory the k-th command of cmds is run in by a shell that has run
\* the ones before it.
DirBefore(cmds, k) == IF \E j \in 1..(k - 1) : cmds[j] = "cd /" THEN "/" ELSE CallerCwd

\* What one shell writes for the first n commands of cmds and the first r
\* of their reports: each command's output, then its report.
RECURSIVE SessionStream(_, _, _, _)
SessionStream(cmds, reps, n, r) ==
    IF n = 0 THEN <<>>
    ELSE SessionStream(cmds, reps, n - 1, r)
            \o CommandWrites(shell, cmds[n], DirBefore(cmds, n), commands, LineOfCommand(n))
            \o (IF n <= r THEN ReportOf(reps[n]) ELSE <<>>)

(***************************************************************************)
(* C25: the commands of a list are run by one shell, in list order (what   *)
(* has been run is always a prefix of the list), a change of directory     *)
(* made by a command holds for every later one, and the stream is each     *)
(* command's output followed by its status report, before the next         *)
(* command's output.                                                       *)
(***************************************************************************)
C25_OneShellInListOrder ==
    /\ Len(executed) <= Len(command_list)
    /\ executed = SubSeq(command_list, 1, Len(executed))
    /\ Len(reports) \in {Len(executed) - 1, Len(executed)} \cap Nat
    /\ written = SessionStream(executed, reports, Len(executed), Len(reports))
    /\ sh_cwd = DirBefore(executed, Len(executed) + 1)

\* cd / then pwd: the second command prints the directory the first one
\* moved the shell to, after the report of the first.
C25_Witness ==
    /\ Done /\ Returned
    /\ command_list = <<"cd /", "pwd">>
    /\ executed = command_list
    /\ written = ReportOf(<<"0">>) \o <<"/", "\n">> \o ReportOf(<<"0">>)
    /\ result.out = <<"/">>

(***************************************************************************)
(* C26: on every exit path of the call (a returned result,                 *)
(* ShellCommandError, ShellRunnerError, an exception raised while the      *)
(* stream is read or parsed) the pipe of the child has been closed and the *)
(* child has been waited for; the pipe is held only while the call runs.   *)
(***************************************************************************)
C26_ChildClosedOnEveryExit ==
    /\ Done => (~stdout_open /\ sh_state = "terminated")
    /\ stdout_open => run_pc \in {"read", "poll", "unwind"}

\* An exception raised by the parse of a forged report while the shell had
\* a command left to run: the pipe is closed and the child has ended.
C26_Witness ==
    /\ Done /\ LoopFailed /\ ~killed
    /\ Len(executed) < Len(command_list)
    /\ ~stdout_open
    /\ sh_state = "terminated"

(***************************************************************************)
(* The two states of the read loop.                                        *)
(***************************************************************************)
\* No command of the list writes a marker of its own.
MarkerFree == \A k \in DOMAIN command_list : command_list[k] \notin StrayCommands

\* The last code point the loop has read.
LastRead == Consumed[Len(Consumed)]

(***************************************************************************)
(* C27: neither marker is kept by the read loop: the pending status buffer *)
(* never holds OPEN or CLOSE, the visible output never holds OPEN, and it  *)
(* never holds CLOSE when no command writes a marker itself.               *)
(***************************************************************************)
C27_MarkersNotRetained ==
    /\ ~Contains(pipestatus, OPEN)
    /\ ~Contains(pipestatus, CLOSE)
    /\ ~Contains(output, OPEN)
    /\ MarkerFree => ~Contains(output, CLOSE)

(***************************************************************************)
(* C28: a CLOSE read while a status is captured completes the payload,     *)
(* empties the pending buffer and switches back to capturing output: the   *)
(* buffer is empty whenever output is captured (so it is when the next     *)
(* capture starts), and after a CLOSE has been read output is captured.    *)
(***************************************************************************)
C28_CloseClearsBuffer ==
    /\ capture_output => pipestatus = <<>>
    /\ (Consumed # <<>> /\ LastRead = CLOSE /\ ~LoopFailed /\ run_pc # "read") => capture_output

(***************************************************************************)
(* C29: whenever k status reports have been read, the parsed pipestatus is *)
(* the integers of the k-th report, as the reporter was given them,        *)
(* whatever the reports before it carried.                                 *)
(***************************************************************************)
C29_ParseIsOfTheReportRead ==
    LET k == Count(Consumed, CLOSE)
    IN  /\ k = 0 => pipestatus_list = <<>>
        /\ k > 0 => TextOf(pipestatus_list) = reports[k]

\* A report of one zero read before a report of three statuses: the parse
\* is the three statuses, with nothing of the first report in it.
C29_Witness ==
    /\ Count(Consumed, CLOSE) = 2
    /\ reports = << <<"0">>, <<"1", " ", "2", " ", "0">> >>
    /\ pipestatus_list = <<1, 2, 0>>

(***************************************************************************)
(* C30: a marker in a command's own output is not taken for the protocol:  *)
(* when the loop has ended it has not failed, every code point the         *)
(* commands wrote besides the markers is in the visible output, and the    *)
(* parsed pipestatus is the last report of the reporter.                   *)
(***************************************************************************)
NonMarkers(s) == SelectSeq(s, LAMBDA c : c \notin {OPEN, CLOSE})

C30_StrayMarkersAreOutput ==
    (Done /\ ~killed) =>
        /\ ~LoopFailed
        /\ NonMarkers(output) = NonMarkers(OutputsOf(executed))
        /\ reports # <<>> => TextOf(pipestatus_list) = reports[Len(reports)]

(***************************************************************************)
(* C31: whatever the merged stream holds, a finished call has returned a   *)
(* result or raised one of the documented errors (ShellRunnerError or one  *)
(* of its subclasses ShellCommandError, ShellResolutionError,              *)
(* EnvironmentVariableError); no other exception leaves the read loop.     *)
(***************************************************************************)
DocumentedErrors ==
    {"ShellRunnerError", "ShellCommandError", "ShellResolutionError", "EnvironmentVariableError"}

C31_OnlyDocumentedErrors ==
    Done => (Returned \/ result.kind \in DocumentedErrors)

(***************************************************************************)
(* C32: in every returned result and every ShellCommandError the status is *)
(* 0 exactly when every value of the pipestatus is 0; so with check        *)
(* enabled run returns only with status 0 and raises ShellCommandError     *)
(* exactly when the status is not 0.                                       *)
(***************************************************************************)
AllZero(pl) == \A i \in DOMAIN pl : pl[i] = 0

C32_StatusZeroIffAllZero ==
    (Done /\ CarriesResult) =>
        /\ result.status = 0 <=> AllZero(result.pipestatus)
        /\ check => (Returned <=> result.status = 0)
        /\ check => (RaisedCommandError <=> result.status # 0)

\* Only the first stage failed and check is enabled: the status is that of
\* the first stage and ShellCommandError is raised.
C32_Witness ==
    /\ Done /\ check /\ RaisedCommandError
    /\ result.pipestatus = <<10, 0, 0>>
    /\ result.status = 10

(***************************************************************************)
(* C33: with show_output enabled every code point taken as visible output  *)
(* is echoed in the same pass of the loop, so after every step the text    *)
(* echoed so far is the untrimmed visible output accumulated so far; with  *)
(* show_output disabled nothing is echoed and the output is accumulated    *)
(* all the same.                                                           *)
(***************************************************************************)
C33_EchoFollowsOutput ==
    /\ show_output => printed = output
    /\ ~show_output => printed = <<>>
    /\ output = Outside(Consumed)

\* In the middle of a run: one code point of the output has been read and
\* echoed, the rest of it is still in the pipe.
C33_Witness ==
    /\ show_output
    /\ run_pc = "read"
    /\ output = <<"a">>
    /\ printed = <<"a">>
    /\ stream # <<>> /\ Head(stream) = "\n"

(***************************************************************************)
(* C34: the read loop ends only when the pipe is at end of file and the    *)
(* child has exited: whatever the order of the child's writes, its exit    *)
(* (or its being killed) and the reads and polls of the caller, when the   *)
(* loop has ended nothing the child wrote is left unread and all of it has *)
(* gone through the loop body.                                             *)
(***************************************************************************)
C34_LoopEndsWithNothingUnread ==
    LoopEnded =>
        /\ stream = <<>>
        /\ sh_state = "terminated"
        /\ Consumed = written
        /\ output = Outside(written)

\* The shell was killed after its first command had written its output:
\* the loop has ended and the output written before the kill was read.
C34_Witness ==
    /\ run_pc = "returned" /\ killed
    /\ written = <<"a", "\n">>
    /\ stream = <<>>
    /\ output = written

(***************************************************************************)
(* C35: once the child has exited and the pipe is at end of file, the read *)
(* loop ends and run goes on to return a result or to raise: it does not   *)
(* keep looping.                                                           *)
(***************************************************************************)
ChildGone == sh_state = "terminated" /\ stream = <<>>

C35_LoopTerminates == ChildGone ~> Done

\* The child has exited with everything read, and run has returned.
C35_Witness ==
    /\ ChildGone
    /\ Done /\ Returned
    /\ Len(reports) = Len(command_list)

(***************************************************************************)
(* C36: run leaves the list of the caller as it was: no step of the call   *)
(* changes its length or its elements, so no status command is ever in it. *)
(***************************************************************************)
C36_CallerListUnchanged == [][command_list' = command_list]_vars

\* A finished call of two commands: the script has four statements, the
\* list of the caller still has the two commands.
C36_Witness ==
    /\ Done /\ Returned
    /\ command_list = <<"echo a", "false | echo b">>
    /\ Len(sh_statements) = 4
    /\ IsStatusCommand(sh_statements[2]) /\ IsStatusCommand(sh_statements[4])

(***************************************************************************)
(* The standalone variant.                                                 *)
(***************************************************************************)
\* The flag is not passed and its variable reads False.
SwitchedOff(option_arg, variable) ==
    /\ option_arg = None
    /\ variable # None
    /\ ReadsAs(variable[1], <<"f", "a", "l", "s", "e">>)

X_Resolved == run_pc # "entry" /\ result.kind \notin {"FileNotFoundError", "ValueError"}

(***************************************************************************)
(* C37: in the standalone variant a flag that is not passed takes the      *)
(* value of its environment variable: with SHELLRUNNER_CHECK,              *)
(* SHELLRUNNER_SHOW_OUTPUT or SHELLRUNNER_SHOW_COMMANDS reading False the  *)
(* option is disabled, so a failing command does not raise its status and  *)
(* nothing is printed.                                                     *)
(***************************************************************************)
C37_StandaloneFlagsFromEnvironment ==
    X_Resolved =>
        /\ SwitchedOff(args.check, env.SHELLRUNNER_CHECK) =>
              (~check /\ result.kind # "ChildProcessError")
        /\ SwitchedOff(args.show_output, env.SHELLRUNNER_SHOW_OUTPUT) => ~show_output
        /\ SwitchedOff(args.show_commands, env.SHELLRUNNER_SHOW_COMMANDS) => ~show_command
        /\ ( /\ SwitchedOff(args.show_output, env.SHELLRUNNER_SHOW_OUTPUT)
             /\ SwitchedOff(args.show_commands, env.SHELLRUNNER_SHOW_COMMANDS) ) => printed = <<>>

====
